---- MODULE Spec2Model ----
(***************************************************************************)
(* Model of the Responses-API transformers of the gateway:                 *)
(*   ResponsesApiV2Transformer (responses-api-v2.transformer.ts, the       *)
(*   definition at lines 1126-2470), OpenAIUnifiedTransformer and          *)
(*   ResponsesApiTransformer.                                              *)
(*                                                                         *)
(* Text is modelled as a sequence of tokens.  A token is a run of          *)
(* characters that the code never looks inside: the newline, a blank, the  *)
(* six characters "data: ", the sentinel "[DONE]", the braces of a JSON    *)
(* payload and the name of the JSON object between them.  A network chunk  *)
(* is any non-empty run of consecutive tokens, so chunk boundaries fall    *)
(* inside lines and inside events.                                         *)
(*                                                                         *)
(* The callbacks handed to ReadableStream call this.processStreamEvent and *)
(* this.logDebug; the model resolves `this` to the transformer, as the     *)
(* text of the methods intends.                                            *)
(***************************************************************************)
EXTENDS Integers, Sequences, FiniteSets, TLC

VARIABLES
  impl,         \* which transformer's handleStreamingResponse runs: "v2" | "v1" | "unified"
  upstream,     \* the whole upstream body, a sequence of tokens
  pos,          \* number of tokens reader.read() has delivered so far
  streamState,  \* StreamState of the response in flight (v2), buffer included
  out,          \* frames enqueued on the downstream controller, in order
  outState,     \* downstream stream: "readable" | "closed" | "errored" | "cancelled"
  pc,           \* "reading" | "done": position of the start() callback
  readsAfterCancel,  \* reader.read() calls that have settled since the client cancelled
  tokReq,       \* the request handed to calculateOptimalTokens
  tokCalc,      \* the TokenCalculation it returned
  tokPrev,      \* the total that was fed back as the requested limit (0: none yet)
  tokRounds,    \* how often the total has been fed back
  options,      \* this.options: the continuation switches given to the constructor
  conversationStates,  \* this.conversationStates: key -> ConversationState
  toolCallMap,  \* this.toolCallMap: the call ids tracked so far
  currentModel, \* this.currentModel
  pending,      \* the request that is waiting for its response
  reqOut,       \* the request transformRequestIn returned last
  last,         \* the response to the request in hand and what was returned for it
  answered,     \* history: per conversation key, the id of the last response processed for it
  respKeys,     \* history: per response id, the keys of the requests it answered
  callKeys,     \* history: per call id, the keys of the conversations it was made in
  rounds,       \* requests handled so far
  encImpl,      \* which conversion ran: "v1", "v2", "hybrid", "decode_v1" ("none": not yet)
  encIn,        \* what it was handed: chat messages, or an upstream response
  encOut,       \* what it returned: input items, or a chat completion
  flights,      \* the requests in flight on one shared instance, each with its stream
  xf,           \* the request transformer that ran ("none": not yet)
  reqBefore,    \* the request object as it was handed to transformRequestIn
  reqAfter,     \* the same object after the call
  reqRet,       \* the request transformRequestIn returned
  xfError       \* transformRequestIn threw

streamVars == <<impl, upstream, pos, streamState, out, outState, pc, readsAfterCancel>>
tokVars    == <<tokReq, tokCalc, tokPrev, tokRounds>>
instVars   == <<options, conversationStates, toolCallMap, currentModel,
                pending, reqOut, last, answered, respKeys, callKeys, rounds>>
encVars    == <<encImpl, encIn, encOut>>
concVars   == <<flights>>
xfVars     == <<xf, reqBefore, reqAfter, reqRet, xfError>>
vars       == <<streamVars, tokVars, instVars, encVars, concVars, xfVars>>

-----------------------------------------------------------------------------
(* Bounds *)

MaxLines == 3      \* lines in one upstream body
MaxTools == 2      \* tools in one request
MaxMessages == 6   \* messages in one request (the history overhead starts above 5)
MaxRounds == 2     \* request/response exchanges on one transformer instance
MaxHistory == 2    \* messages in one request handed to transformMessages

-----------------------------------------------------------------------------
(* Tokens and lines *)

NL   == "NL"       \* "\n"
SP   == "SP"       \* a blank
DATA == "DATA"     \* "data: "
DONE == "[DONE]"
LB   == "{"
RB   == "}"
EVENTLINE == "event: x"   \* a line that is not a data: line

RECURSIVE SplitNL(_)
\* String.prototype.split("\n"): the segments between newlines, at least one.
SplitNL(s) ==
  IF \A i \in 1..Len(s) : s[i] # NL
    THEN <<s>>
    ELSE LET i == CHOOSE j \in 1..Len(s) :
                    s[j] = NL /\ \A k \in 1..(j-1) : s[k] # NL
         IN  <<SubSeq(s, 1, i-1)>> \o SplitNL(SubSeq(s, i+1, Len(s)))

\* line.trim() is empty
IsBlank(line) == \A i \in 1..Len(line) : line[i] = SP

DoneLine == <<DATA, DONE>>

\* line.startsWith("data: ")
StartsWithData(line) == Len(line) >= 1 /\ line[1] = DATA

\* line.slice(6)
Payload(line) == SubSeq(line, 2, Len(line))

\* JSON.parse succeeds on the payload: one object, blanks around it allowed
JsonOk(p) == Len(p) = 3 /\ p[1] = LB /\ p[3] = RB /\ p[2] \notin {NL, SP, DATA, DONE, LB, RB}

JsonName(p) == p[2]

-----------------------------------------------------------------------------
(* Upstream events of the Responses API (v2) *)

NoStr == <<>>      \* the empty string / an absent string field

V2EventNames ==
  {"created", "added_msg", "added_fc_a", "added_fc_b", "text_delta",
   "fc_delta", "fc_args_1", "fc_args_2", "fc_done", "item_done", "completed",
   "incomplete", "fc_delta_a1", "fc_delta_a2", "fc_delta_b", "fc_done_a", "fc_done_b"}

\* The JSON object a payload name stands for.
V2Event(n) ==
  CASE n = "created"    -> [type |-> "response.created", response_id |-> "resp_1",
                            item_type |-> "", call_id |-> "", name |-> "", delta |-> NoStr]
    [] n = "added_msg"  -> [type |-> "response.output_item.added", response_id |-> "",
                            item_type |-> "message", call_id |-> "", name |-> "", delta |-> NoStr]
    [] n = "added_fc_a" -> [type |-> "response.output_item.added", response_id |-> "",
                            item_type |-> "function_call", call_id |-> "call_a", name |-> "read",
                            delta |-> NoStr]
    [] n = "added_fc_b" -> [type |-> "response.output_item.added", response_id |-> "",
                            item_type |-> "function_call", call_id |-> "call_b", name |-> "write",
                            delta |-> NoStr]
    [] n = "text_delta" -> [type |-> "response.output_text.delta", response_id |-> "",
                            item_type |-> "", call_id |-> "", name |-> "", delta |-> <<"Hi">>]
    [] n = "fc_delta"   -> [type |-> "response.function_call.delta", response_id |-> "",
                            item_type |-> "", call_id |-> "", name |-> "", delta |-> <<"{}">>]
    [] n = "fc_args_1"  -> [type |-> "response.function_call.delta", response_id |-> "",
                            item_type |-> "", call_id |-> "", name |-> "",
                            delta |-> <<LB, "\"path\":\"a\"">>]
    [] n = "fc_args_2"  -> [type |-> "response.function_call.delta", response_id |-> "",
                            item_type |-> "", call_id |-> "", name |-> "", delta |-> <<RB>>]
    [] n = "fc_delta_a1" -> [type |-> "response.function_call.delta", response_id |-> "",
                             item_type |-> "", call_id |-> "call_a", name |-> "",
                             delta |-> <<LB>>]
    [] n = "fc_delta_a2" -> [type |-> "response.function_call.delta", response_id |-> "",
                             item_type |-> "", call_id |-> "call_a", name |-> "",
                             delta |-> <<RB>>]
    [] n = "fc_delta_b"  -> [type |-> "response.function_call.delta", response_id |-> "",
                             item_type |-> "", call_id |-> "call_b", name |-> "",
                             delta |-> <<LB, "\"path\":\"a\"", RB>>]
    [] n = "fc_done_a"   -> [type |-> "response.function_call.done", response_id |-> "",
                             item_type |-> "", call_id |-> "call_a", name |-> "", delta |-> NoStr]
    [] n = "fc_done_b"   -> [type |-> "response.function_call.done", response_id |-> "",
                             item_type |-> "", call_id |-> "call_b", name |-> "", delta |-> NoStr]
    [] n = "fc_done"    -> [type |-> "response.function_call.done", response_id |-> "",
                            item_type |-> "", call_id |-> "", name |-> "", delta |-> NoStr]
    [] n = "item_done"  -> [type |-> "response.output_item.done", response_id |-> "",
                            item_type |-> "", call_id |-> "", name |-> "", delta |-> NoStr]
    [] n = "completed"  -> [type |-> "response.completed", response_id |-> "",
                            item_type |-> "", call_id |-> "", name |-> "", delta |-> NoStr]
    [] n = "incomplete" -> [type |-> "response.incomplete", response_id |-> "",
                            item_type |-> "", call_id |-> "", name |-> "", delta |-> NoStr]
    [] OTHER            -> [type |-> "unhandled", response_id |-> "",
                            item_type |-> "", call_id |-> "", name |-> "", delta |-> NoStr]

-----------------------------------------------------------------------------
(* Downstream frames *)

\* A chat.completion.chunk frame; index is the tool_calls index, -1 when the
\* delta has no tool_calls entry.
Chunk(id, model, delta, index, callId, name, text, finish) ==
  [kind |-> "chunk", id |-> id, model |-> model, delta |-> delta, index |-> index,
   call_id |-> callId, name |-> name, text |-> text, finish_reason |-> finish,
   raw |-> <<>>, refusal |-> NoStr, parsed |-> NoStr]

\* "data: [DONE]\n\n"
DoneFrame ==
  [kind |-> "done", id |-> "", model |-> <<>>, delta |-> "", index |-> -1,
   call_id |-> "", name |-> "", text |-> NoStr, finish_reason |-> "null", raw |-> <<>>,
   refusal |-> NoStr, parsed |-> NoStr]

\* a line forwarded as it came
RawFrame(line) ==
  [kind |-> "raw", id |-> "", model |-> <<>>, delta |-> "", index |-> -1,
   call_id |-> "", name |-> "", text |-> NoStr, finish_reason |-> "null", raw |-> line,
   refusal |-> NoStr, parsed |-> NoStr]

-----------------------------------------------------------------------------
(* ResponsesApiV2Transformer: stream state and processStreamEvent *)

NoToolCall == [present |-> FALSE, id |-> "", name |-> "", arguments |-> NoStr]

\* streamState as handleStreamingResponse creates it
InitStreamState ==
  [buffer |-> <<>>, pendingText |-> <<>>, sequenceNumber |-> 0, hasContent |-> FALSE,
   hadToolCalls |-> FALSE, currentToolCall |-> NoToolCall, responseId |-> ""]

\* state.responseId || 'stream'
ChunkId(st) == IF st.responseId = "" THEN "stream" ELSE st.responseId

\* the index written into delta.tool_calls[0].index
ToolCallIndex(st) == 0

\* the finish_reason of the chunk for response.completed / response.incomplete
finalFinishReason(event, st) ==
  IF event.type = "response.incomplete"
    THEN "length"
    ELSE IF st.hadToolCalls THEN "stop" ELSE "stop"

\* processStreamEvent(event, state): the new state and the frames returned
\* (none when the method returns null).
processStreamEvent(event, st, model) ==
  CASE event.type = "response.created" ->
         [st |-> [st EXCEPT !.responseId = event.response_id], frames |-> <<>>]
    [] event.type = "response.output_item.added" /\ event.item_type = "message" ->
         [st |-> st,
          frames |-> <<Chunk(ChunkId(st), model, "role", -1, "", "", NoStr, "null")>>]
    [] event.type = "response.output_item.added" /\ event.item_type = "function_call" ->
         [st |-> [st EXCEPT !.hadToolCalls = TRUE,
                            !.currentToolCall =
                               [present |-> TRUE, id |-> event.call_id,
                                name |-> event.name, arguments |-> NoStr]],
          frames |-> <<Chunk(ChunkId(st), model, "tool_start", ToolCallIndex(st),
                             event.call_id, event.name, NoStr, "null")>>]
    [] event.type = "response.output_item.added"
         /\ event.item_type \notin {"message", "function_call"} ->
         [st |-> st, frames |-> <<>>]
    [] event.type = "response.output_text.delta" ->
         [st |-> [st EXCEPT !.hasContent = TRUE,
                            !.pendingText = Append(@, event.delta)],
          frames |-> <<Chunk(ChunkId(st), model, "content", -1, "", "", event.delta, "null")>>]
    [] event.type = "response.function_call.delta" ->
         IF st.currentToolCall.present
           THEN [st |-> [st EXCEPT !.currentToolCall.arguments = @ \o event.delta],
                 frames |-> <<Chunk(ChunkId(st), model, "tool_args", ToolCallIndex(st),
                                    "", "", event.delta, "null")>>]
           ELSE [st |-> st, frames |-> <<>>]
    [] event.type = "response.function_call.done" ->
         IF st.currentToolCall.present
           THEN [st |-> [st EXCEPT !.currentToolCall = NoToolCall],
                 frames |-> <<Chunk(ChunkId(st), model, "empty", -1, "", "", NoStr, "null")>>]
           ELSE [st |-> st, frames |-> <<>>]
    [] event.type = "response.output_item.done" ->
         [st |-> st,
          frames |-> <<Chunk(ChunkId(st), model, "empty", -1, "", "", NoStr, "null")>>]
    [] event.type \in {"response.completed", "response.incomplete"} ->
         [st |-> st,
          frames |-> <<Chunk(ChunkId(st), model, "empty", -1, "", "", NoStr,
                             finalFinishReason(event, st))>>]
    [] OTHER -> [st |-> st, frames |-> <<>>]

-----------------------------------------------------------------------------
(* ResponsesApiV2Transformer.handleStreamingResponse: the read loop *)

\* One line of the for loop: the new stream state and the frames enqueued.
HandleLineV2(line, st, model) ==
  IF IsBlank(line) \/ line = DoneLine
    THEN [st |-> st, frames |-> IF line = DoneLine THEN <<DoneFrame>> ELSE <<>>]
    ELSE IF StartsWithData(line)
      THEN IF JsonOk(Payload(line))
             THEN processStreamEvent(V2Event(JsonName(Payload(line))), st, model)
             ELSE [st |-> st, frames |-> <<>>]      \* catch: logDebug only
      ELSE [st |-> st, frames |-> <<>>]

RECURSIVE HandleLinesV2(_, _, _)
HandleLinesV2(lines, st, model) ==
  IF lines = <<>>
    THEN [st |-> st, frames |-> <<>>]
    ELSE LET one  == HandleLineV2(Head(lines), st, model)
             rest == HandleLinesV2(Tail(lines), one.st, model)
         IN  [st |-> rest.st, frames |-> one.frames \o rest.frames]

\* a reassembler that forgets the unfinished line at the end of a chunk
RemainderDropped(segments) == <<>>

\* lines.pop() || "": what stays in the buffer after the split
Remainder(segments) == segments[Len(segments)]

\* The body of the while loop for one chunk: append, split, keep the
\* remainder, handle the complete lines.
HandleChunkV2(chunk, st, model) ==
  LET segments == SplitNL(st.buffer \o chunk)
      lines    == SubSeq(segments, 1, Len(segments) - 1)
      kept     == [st EXCEPT !.buffer = Remainder(segments)]
  IN  HandleLinesV2(lines, kept, model)

-----------------------------------------------------------------------------
(* OpenAIUnifiedTransformer.handleStreamingResponse *)

UEventNames == {"u_content", "u_refusal", "u_parsed"}

\* The chat.completion.chunk a payload name stands for (choices[0].delta).
UEvent(n) ==
  CASE n = "u_content" -> [content |-> <<"Hi">>, refusal |-> NoStr, parsed |-> NoStr]
    [] n = "u_refusal" -> [content |-> NoStr, refusal |-> <<"no">>, parsed |-> NoStr]
    [] n = "u_parsed"  -> [content |-> NoStr, refusal |-> NoStr, parsed |-> <<"{}">>]
    [] OTHER           -> [content |-> NoStr, refusal |-> NoStr, parsed |-> NoStr]

REFUSAL == "[REFUSAL] "

\* The refusal and parsed handling applied to a parsed chunk.
UnifiedTransformChunk(d) ==
  LET r == IF d.refusal # NoStr
             THEN [d EXCEPT !.content = <<REFUSAL>> \o d.refusal, !.refusal = NoStr]
             ELSE d
  IN  IF r.parsed # NoStr /\ r.content = NoStr
        THEN [r EXCEPT !.content = r.parsed]
        ELSE r

\* handleNonStreamingResponse applied to choices[0].message: the refusal
\* stays on the message, the content is replaced
UnifiedTransformMessage(m) ==
  LET r == IF m.refusal # NoStr THEN [m EXCEPT !.content = <<REFUSAL>> \o m.refusal] ELSE m
  IN  IF r.parsed # NoStr /\ r.content = NoStr
        THEN [r EXCEPT !.content = r.parsed]
        ELSE r

UChunk(d) ==
  [kind |-> "chunk", id |-> "", model |-> <<>>, delta |-> "chat", index |-> -1,
   call_id |-> "", name |-> "", text |-> d.content, finish_reason |-> "null",
   raw |-> <<>>, refusal |-> d.refusal, parsed |-> d.parsed]

HandleLineUnified(line) ==
  IF IsBlank(line) \/ line = DoneLine
    THEN <<RawFrame(line)>>
    ELSE IF StartsWithData(line)
      THEN IF JsonOk(Payload(line))
             THEN <<UChunk(UnifiedTransformChunk(UEvent(JsonName(Payload(line)))))>>
             ELSE <<RawFrame(line)>>
      ELSE <<RawFrame(line)>>

RECURSIVE HandleLinesUnified(_)
HandleLinesUnified(lines) ==
  IF lines = <<>> THEN <<>>
  ELSE HandleLineUnified(Head(lines)) \o HandleLinesUnified(Tail(lines))

\* One chunk: the new buffer and the frames enqueued.
HandleChunkUnified(chunk, buffer) ==
  LET segments == SplitNL(buffer \o chunk)
      lines    == SubSeq(segments, 1, Len(segments) - 1)
  IN  [buffer |-> Remainder(segments), frames |-> HandleLinesUnified(lines)]

\* done: if (buffer.trim()) controller.enqueue(buffer)
FlushUnified(buffer) == IF IsBlank(buffer) THEN <<>> ELSE <<RawFrame(buffer)>>

-----------------------------------------------------------------------------
(* ResponsesApiTransformer.handleStreamingResponse *)

\* (this as any).currentModel || 'o3-mini': inside start() the receiver has no
\* currentModel, so every chunk names the default
V1Model == <<"o3", "-mini">>

\* responseId || 'chunk'
V1ChunkId(st) == IF st.responseId = "" THEN "chunk" ELSE st.responseId

\* the chunk sent for a terminal event when nothing has been sent before:
\* id and model are those of data.response
V1IncompleteChunk ==
  Chunk("resp_1", <<"o3">>, "content", -1, "", "",
        <<"[Response incomplete - token limit reached]">>, "length")

\* The try block for one parsed event. None of the events carries a
\* top-level response_id, so responseId stays null.
V1Event(event, st) ==
  CASE event.type = "response.output_item.added" /\ event.item_type = "message" ->
         [st |-> [st EXCEPT !.hasContent = TRUE],
          frames |-> <<Chunk("msg_1", V1Model, "role", -1, "", "", NoStr, "null")>>]
    [] event.type = "response.output_text.delta" /\ event.delta # NoStr ->
         [st |-> [st EXCEPT !.hasContent = TRUE],
          frames |-> <<Chunk(V1ChunkId(st), V1Model, "content", -1, "", "",
                             event.delta, "null")>>]
    [] event.type = "response.output_item.done" /\ event.item_type = "message" ->
         [st |-> st,
          frames |-> <<Chunk(V1ChunkId(st), V1Model, "empty", -1, "", "", NoStr, "stop")>>]
    [] event.type \in {"response.incomplete", "response.completed"} ->
         [st |-> st,
          frames |-> (IF event.type = "response.incomplete" /\ ~st.hasContent
                        THEN <<V1IncompleteChunk>> ELSE <<>>) \o <<DoneFrame>>]
    [] OTHER -> [st |-> st, frames |-> <<>>]

\* One line of the for loop.
HandleLineV1(line, st) ==
  IF IsBlank(line)
    THEN [st |-> st, frames |-> <<>>]
    ELSE IF StartsWithData(line) /\ line # DoneLine
      THEN IF JsonOk(Payload(line))
             THEN V1Event(V2Event(JsonName(Payload(line))), st)
             ELSE [st |-> st, frames |-> <<>>]      \* catch: log only
      ELSE [st |-> st, frames |-> IF line = DoneLine THEN <<DoneFrame>> ELSE <<>>]

RECURSIVE HandleLinesV1(_, _)
HandleLinesV1(lines, st) ==
  IF lines = <<>>
    THEN [st |-> st, frames |-> <<>>]
    ELSE LET one  == HandleLineV1(Head(lines), st)
             rest == HandleLinesV1(Tail(lines), one.st)
         IN  [st |-> rest.st, frames |-> one.frames \o rest.frames]

\* The body of the while loop for one chunk.
HandleChunkV1(chunk, st) ==
  LET segments == SplitNL(st.buffer \o chunk)
      lines    == SubSeq(segments, 1, Len(segments) - 1)
      kept     == [st EXCEPT !.buffer = Remainder(segments)]
  IN  HandleLinesV1(lines, kept)

-----------------------------------------------------------------------------
(* Upstream bodies *)

DataLine(n) == <<DATA, LB, n, RB>>
BadJsonLine == <<DATA, LB, "text_delta">>

\* the lines the bodies of the streamed path are made of: bodies of block
\* events, bodies that exercise the framing, and chat-completions bodies
BlockLines ==
  {DataLine(n) : n \in {"added_msg", "added_fc_a", "added_fc_b",
                        "fc_delta", "fc_done", "completed"}}
FramingLines ==
  {DataLine(n) : n \in {"text_delta", "completed"}} \cup {DoneLine, <<>>, BadJsonLine}
ULines ==
  {DataLine(n) : n \in {"u_content", "u_refusal"}} \cup {DoneLine, <<>>, BadJsonLine}

LineSeqs(L) == UNION {[1..n -> L] : n \in 0..MaxLines}

RECURSIVE Join(_)
\* the lines, each followed by a newline
Join(ls) == IF ls = <<>> THEN <<>> ELSE Head(ls) \o <<NL>> \o Join(Tail(ls))

\* a body: complete lines, then possibly a last line without its newline
Bodies(L) ==
  {Join(ls) : ls \in LineSeqs(L)}
    \cup {Join(SubSeq(ls, 1, Len(ls) - 1)) \o ls[Len(ls)] :
            ls \in {x \in LineSeqs(L) : x # <<>>}}

\* this.currentModel while the response is handled
CurrentModel == <<"o3">>

-----------------------------------------------------------------------------
(* ResponsesApiV2Transformer.calculateOptimalTokens *)

\* Model names, lower-cased, as sequences of the pieces the code matches on.
GPT5       == <<"gpt-", "5">>
GPT41      == <<"gpt-", "4.1">>
GPT4O      == <<"gpt-", "4o">>
GPT4OMINI  == <<"gpt-", "4o", "-mini">>
O1         == <<"o1">>
O3         == <<"o3">>
O3PRO      == <<"o3", "-pro">>
O3MINI     == <<"o3", "-mini">>
O3MINIDATE == <<"o3", "-mini", "-2025-01-31">>
O4MINI     == <<"o4", "-mini">>
O4MINIDATE == <<"o4", "-mini", "-2025-04-16">>

ModelNames ==
  {GPT5, GPT41, GPT4O, GPT4OMINI, O1, O3, O3PRO, O3MINI, O3MINIDATE, O4MINI, O4MINIDATE}

\* String.prototype.includes
Includes(model, pat) ==
  \E i \in 0..(Len(model) - Len(pat)) : SubSeq(model, i + 1, i + Len(pat)) = pat

isReasoningModel(model) ==
  Includes(model, <<"o1">>) \/ Includes(model, <<"o3">>) \/ Includes(model, <<"o4">>)

DefaultTokenLimit == 16384

\* MODEL_TOKEN_LIMITS[model] || MODEL_TOKEN_LIMITS.default
ModelMax(model) ==
  CASE model = GPT5   -> 400000
    [] model = O3     -> 128000
    [] model = O3PRO  -> 128000
    [] model = O3MINI -> 16384
    [] model = O4MINI -> 32768
    [] model = GPT41  -> 128000
    [] model = GPT4O  -> 32767
    [] OTHER          -> DefaultTokenLimit

DefaultBaseTokens   == 4000
PerToolOverhead     == 2000
ToolBaseOverhead    == 5000
ReasoningOverheadO4 == 10000
ReasoningOverhead   == 5000
HistoryThreshold    == 5
PerMessageOverhead  == 200
MinTokensO4Mini     == 25000
MinTokensO3         == 15000
minTokensForTools   == 15000     \* this.options.minTokensForTools, default

Max(a, b) == IF a >= b THEN a ELSE b

\* an implementation that forgets the floor for requests with tools
ApplyToolMinimumDropped(total, hasTools) == total

\* if (hasTools) calc.total = Math.max(calc.total, this.options.minTokensForTools)
ApplyToolMinimum(total, hasTools) ==
  IF hasTools THEN Max(total, minTokensForTools) ELSE total

\* Model-specific minimums
ApplyModelMinimum(total, model) ==
  IF Includes(model, <<"o4", "-mini">>) THEN Max(total, MinTokensO4Mini)
  ELSE IF Includes(model, <<"o3">>) THEN Max(total, MinTokensO3)
  ELSE total

\* Cap at model maximum
ApplyModelCap(total, model) ==
  IF total > ModelMax(model) THEN ModelMax(model) ELSE total

\* an implementation that forgets to add the overhead
OverheadNone(req) == 0

\* toolOverhead + reasoningOverhead + historyOverhead
Overhead(req) ==
  (IF req.tools > 0 THEN req.tools * PerToolOverhead + ToolBaseOverhead ELSE 0)
  + (IF isReasoningModel(req.model)
       THEN (IF Includes(req.model, <<"o4">>) THEN ReasoningOverheadO4 ELSE ReasoningOverhead)
       ELSE 0)
  + (IF req.messages > HistoryThreshold THEN req.messages * PerMessageOverhead ELSE 0)

\* request.max_tokens || request.max_completion_tokens || 4000  (0: absent)
BaseTokens(req) ==
  IF req.max_tokens # 0 THEN req.max_tokens
  ELSE IF req.max_completion_tokens # 0 THEN req.max_completion_tokens
  ELSE DefaultBaseTokens

\* calculateOptimalTokens(request): the TokenCalculation returned
calculateOptimalTokens(req) ==
  LET base    == BaseTokens(req)
      summed  == base + Overhead(req)
      floored == ApplyModelMinimum(ApplyToolMinimum(summed, req.tools > 0), req.model)
  IN  [base |-> base, overhead |-> Overhead(req),
       total |-> ApplyModelCap(floored, req.model),
       capped |-> floored > ModelMax(req.model)]

\* the requests calculateOptimalTokens is applied to
TokenRequests ==
  [model : ModelNames,
   max_tokens : {0, 100, 4000, 20000},
   max_completion_tokens : {0, 300000},
   tools : 0..MaxTools,
   messages : 1..MaxMessages]

NoCalc == [base |-> 0, overhead |-> 0, total |-> 0, capped |-> FALSE]

-----------------------------------------------------------------------------
(* ResponsesApiV2Transformer: non-streamed responses and conversation state *)

ConvKeys  == {"k1", "k2"}
StateKeys == ConvKeys \cup {"default"}

\* the constructor's defaults
DefaultOptions == [alwaysContinueWithTools |-> TRUE, continuousExecution |-> TRUE]
enableStateful == TRUE

\* the settings of the two continuation options
OptionSets == [alwaysContinueWithTools : BOOLEAN, continuousExecution : BOOLEAN]

\* output items of a Responses-API response
TextPart(t)          == [type |-> "output_text", text |-> t, id |-> "", name |-> "", input |-> NoStr]
ToolUsePart(id, n)   == [type |-> "tool_use", text |-> NoStr, id |-> id, name |-> n, input |-> <<"{}">>]
MessageItem(parts)   == [type |-> "message", content |-> parts, call_id |-> "", name |-> "",
                         arguments |-> NoStr]
FunctionCallItem(id, n, args) ==
  [type |-> "function_call", content |-> <<>>, call_id |-> id, name |-> n, arguments |-> args]

Outputs ==
  { <<>>,
    <<MessageItem(<<TextPart(<<"Hi">>)>>)>>,
    <<FunctionCallItem("call_a", "read", <<"{}">>)>>,
    <<MessageItem(<<TextPart(<<"Hi">>)>>), FunctionCallItem("call_a", "read", <<"{}">>)>>,
    <<MessageItem(<<ToolUsePart("call_b", "write")>>)>>,
    <<MessageItem(<<TextPart(<<"Hi">>), TextPart(<<"there">>)>>)>>,
    <<FunctionCallItem("call_a", "read", <<"{}">>), FunctionCallItem("call_b", "write", <<"{}">>)>> }

\* the bodies of non-streamed responses; id "" and conversation_id "": absent
JsonResponses ==
  [id : {"", "resp_1", "resp_2"}, status : {"completed", "incomplete"},
   conversation_id : ConvKeys \cup {""}, output : Outputs]

ResponseIds == {r.id : r \in JsonResponses} \ {""}
CallIds     == UNION {{o[i].call_id : i \in 1..Len(o)} : o \in Outputs} \ {""}

NoResponse == [id |-> "", status |-> "none", conversation_id |-> "", output |-> <<>>]

\* response.output?.find(o => o.type === 'message')
IsMessage(o)       == o.type = "message"
IsFunctionCall(o)  == o.type = "function_call"
IsOutputText(c)    == c.type = "output_text"
IsToolUse(c)       == c.type = "tool_use"

MessageOutputs(resp) == SelectSeq(resp.output, IsMessage)
FunctionCalls(resp)  == SelectSeq(resp.output, IsFunctionCall)

ToolCallOfUse(c)  == [id |-> c.id, name |-> c.name, arguments |-> c.input]
\* JSON.parse of an arguments string: whether it parses, and the members of
\* the object it gives
ArgsJson(s) ==
  IF s = <<"{}">>
    THEN [ok |-> TRUE, members |-> <<>>]
    ELSE IF /\ Len(s) >= 2 /\ s[1] = LB /\ s[Len(s)] = RB
            /\ \A i \in 2..(Len(s) - 1) : s[i] \notin {LB, RB, "{}"}
           THEN [ok |-> TRUE, members |-> SubSeq(s, 2, Len(s) - 1)]
           ELSE [ok |-> FALSE, members |-> <<>>]

InvalidArguments == <<LB, "\"error\":\"Invalid JSON arguments\"", RB>>

\* funcArgs: the arguments string when it is valid JSON
funcArgs(arguments) == IF ArgsJson(arguments).ok THEN arguments ELSE InvalidArguments

ToolCallOfCall(f) == [id |-> f.call_id, name |-> f.name, arguments |-> funcArgs(f.arguments)]

IncompleteText == <<"[Response incomplete - token limit reached]">>

\* a decision tree that reports the traditional 'tool_calls' for function calls
FinishReasonWaitForTools(resp, opts) ==
  IF resp.status = "incomplete" THEN "length"
  ELSE IF Len(FunctionCalls(resp)) > 0 THEN "tool_calls"
  ELSE "stop"

\* a decision tree that lets the tool calls decide before the status is looked at
FinishReasonToolsFirst(resp, opts) ==
  IF Len(FunctionCalls(resp)) > 0 THEN "stop"
  ELSE IF resp.status = "incomplete" THEN "length"
  ELSE "stop"

\* the finish_reason transformResponseToOpenAI returns: the decision tree of the
\* function-call branch, then the override for incomplete responses; the value
\* of shouldContinue(response, hasContent), which reads the options, is not used
FinishReason(resp, opts) ==
  LET inBranch ==
        IF Len(FunctionCalls(resp)) > 0
          THEN (IF resp.status = "incomplete" THEN "length" ELSE "stop")
          ELSE "stop"
  IN  IF resp.status = "incomplete" THEN "length" ELSE inBranch

\* transformResponseToOpenAI(response): the chat.completion returned
transformResponseToOpenAI(resp, opts, model) ==
  LET msgs    == MessageOutputs(resp)
      hasMsg  == Len(msgs) > 0
      texts   == IF hasMsg THEN SelectSeq(msgs[1].content, IsOutputText) ELSE <<>>
      hasText == Len(texts) > 0
      uses    == IF hasMsg THEN SelectSeq(msgs[1].content, IsToolUse) ELSE <<>>
      calls   == [i \in 1..Len(uses) |-> ToolCallOfUse(uses[i])]
                 \o [i \in 1..Len(FunctionCalls(resp)) |-> ToolCallOfCall(FunctionCalls(resp)[i])]
      fillIn  == resp.status = "incomplete" /\ (~hasText \/ texts[1].text = NoStr)
  IN  [id |-> resp.id, model |-> model,
       content_null |-> ~hasText /\ ~fillIn,
       content |-> IF fillIn THEN IncompleteText
                   ELSE IF hasText THEN texts[1].text ELSE NoStr,
       tool_calls |-> calls,
       finish_reason |-> FinishReason(resp, opts)]

\* fc.arguments || JSON.stringify({})
OrEmptyObject(arguments) == IF arguments = NoStr THEN <<"{}">> ELSE arguments

ToolCallOfCallV1(f) ==
  [id |-> f.call_id, name |-> f.name, arguments |-> OrEmptyObject(f.arguments)]

V1NoOutputText(resp) ==
  IF resp.status = "incomplete"
    THEN <<"[Response incomplete - token limit reached during reasoning]">>
    ELSE <<"[No response generated]">>

\* ResponsesApiTransformer.transformToOpenAIFormat(responsesApiResponse);
\* messageStatus is the status of the first message item ("undefined": absent)
transformToOpenAIFormat(resp, messageStatus) ==
  LET msgs  == MessageOutputs(resp)
      fcs   == FunctionCalls(resp)
      calls == [i \in 1..Len(fcs) |-> ToolCallOfCallV1(fcs[i])]
  IN  IF Len(msgs) = 0 /\ Len(fcs) > 0
        THEN [id |-> resp.id, model |-> NoStr, content_null |-> TRUE, content |-> NoStr,
              tool_calls |-> calls, finish_reason |-> "tool_calls"]
      ELSE IF Len(msgs) = 0
        THEN [id |-> resp.id, model |-> NoStr, content_null |-> FALSE,
              content |-> V1NoOutputText(resp), tool_calls |-> <<>>,
              finish_reason |-> IF resp.status = "incomplete" THEN "length" ELSE "stop"]
      ELSE LET texts == SelectSeq(msgs[1].content, IsOutputText)
               uses  == SelectSeq(msgs[1].content, IsToolUse)
           IN  [id |-> resp.id, model |-> NoStr,
                content_null |-> Len(texts) = 0,
                content |-> IF Len(texts) > 0 THEN texts[1].text ELSE NoStr,
                tool_calls |-> [i \in 1..Len(uses) |-> ToolCallOfUse(uses[i])] \o calls,
                finish_reason |-> IF Len(fcs) > 0 THEN "tool_calls"
                                  ELSE IF messageStatus = "completed" THEN "stop"
                                  ELSE "length"]

NoResult ==
  [id |-> "", model |-> NoStr, content_null |-> TRUE, content |-> NoStr,
   tool_calls |-> <<>>, finish_reason |-> "none"]

\* the call ids transformResponseToOpenAI adds to this.toolCallMap
TrackedCalls(resp) == {FunctionCalls(resp)[i].call_id : i \in 1..Len(FunctionCalls(resp))}

NoConversationState == [response_id |-> "", tool_history |-> {}]

\* updateConversationState(response): the key written and the state stored
ConversationKeyOf(resp) == IF resp.conversation_id # "" THEN resp.conversation_id ELSE "default"

updateConversationState(resp, states, calls) ==
  IF resp.id = "" THEN states
  ELSE [states EXCEPT ![ConversationKeyOf(resp)] =
          [response_id |-> resp.id, tool_history |-> calls]]

\* buildResponsesApiRequest: the previous_response_id put on the request ("": none)
PreviousResponseId(convId, states) ==
  IF enableStateful /\ convId # "" THEN states[convId].response_id ELSE ""

\* event sequences of streamed responses handled on an instance
StreamedBodies ==
  { <<"created", "added_msg", "text_delta", "completed">>,
    <<"created", "added_fc_a", "fc_delta", "fc_done", "completed">>,
    <<"created", "added_msg", "text_delta", "added_fc_a", "fc_done", "item_done", "completed">>,
    <<"created", "added_fc_a", "fc_delta", "incomplete">>,
    <<"added_msg", "text_delta", "incomplete">>,
    <<"created", "incomplete">>,
    <<"created", "added_fc_a", "fc_args_1", "fc_args_2", "fc_done", "completed">>,
    <<"created", "added_fc_a", "fc_delta", "fc_done",
      "added_fc_b", "fc_args_1", "fc_args_2", "fc_done", "completed">> }

\* the body of a streamed response: one data: line per event
BodyOf(events) == Join([i \in 1..Len(events) |-> DataLine(events[i])])

Requests == [model : {O3}, conversation_id : ConvKeys \cup {""}]

NoRequest == [model |-> NoStr, conversation_id |-> "", previous_response_id |-> "",
              encoded |-> FALSE]

\* an HTTP response: its status and what its body is
Http(status, body) == [status |-> status, body |-> body]
NoHttp == Http(0, "none")

\* upstream failures: the body is the provider's error object or not JSON at all
ErrorStatuses == {400, 500}
ErrorBodies   == {"error_object", "not_json"}

NoExchange ==
  [kind |-> "none", resp |-> NoResponse, events |-> <<>>, result |-> NoResult,
   frames |-> <<>>, conversation_id |-> "", received |-> NoHttp, returned |-> NoHttp]

InstIdle ==
  /\ options = DefaultOptions
  /\ conversationStates = [k \in StateKeys |-> NoConversationState]
  /\ toolCallMap = {}
  /\ currentModel = NoStr
  /\ pending = NoRequest
  /\ reqOut = NoRequest
  /\ last = NoExchange
  /\ answered = [k \in ConvKeys |-> ""]
  /\ respKeys = [r \in ResponseIds |-> {}]
  /\ callKeys = [c \in CallIds |-> {}]
  /\ rounds = 0

-----------------------------------------------------------------------------
(* transformMessages: chat messages to Responses-API input items *)

Undefined == <<"undefined">>   \* a property the object does not have

\* content blocks of chat messages
Block(type, text, url, name, content) ==
  [type |-> type, text |-> text, image_url |-> url, name |-> name, content |-> content]

TextBlock       == Block("text", <<"hello">>, Undefined, Undefined, Undefined)
ImageUrlBlock   == Block("image_url", Undefined, <<"http://img">>, Undefined, Undefined)
ImageBlock      == Block("image", Undefined, Undefined, Undefined, Undefined)
ToolUseBlock    == Block("tool_use", Undefined, Undefined, <<"read">>, Undefined)
ToolResultBlock == Block("tool_result", Undefined, Undefined, Undefined, <<"ok">>)

ContentArrays ==
  { <<>>, <<TextBlock>>, <<ImageUrlBlock>>, <<ImageBlock>>, <<ToolUseBlock>>,
    <<ToolResultBlock>>, <<TextBlock, ToolUseBlock>>, <<ToolResultBlock, TextBlock>> }

\* msg.content: a string, an array of blocks, or null
Contents ==
  {[form |-> "string", text |-> <<"hello">>, blocks |-> <<>>],
   [form |-> "null", text |-> NoStr, blocks |-> <<>>]}
  \cup {[form |-> "array", text |-> NoStr, blocks |-> a] : a \in ContentArrays}

Messages ==
  [role : {"user", "system", "tool"}, content : Contents, tool_calls : {FALSE}]
  \cup [role : {"assistant"}, content : Contents, tool_calls : BOOLEAN]

MessageLists == UNION {[1..n -> Messages] : n \in 0..MaxHistory}

\* a content part of an input item
Part(type, text) == [type |-> type, text |-> text, image_url |-> Undefined]
ImagePart(type, url) == [type |-> type, text |-> Undefined, image_url |-> url]

\* getContentType(role)
getContentType(role) == IF role = "assistant" THEN "output_text" ELSE "input_text"

\* transformContentArray, the tool_result branch
ToolResultPart(item, role) ==
  Part("input_text", <<"[Tool Result]", NL>> \o item.content)

\* transformContentArray(content, role): one block
ContentPartV2(item, role) ==
  CASE item.type = "text"        -> Part(getContentType(role), item.text)
    [] item.type = "image_url"   ->
         ImagePart(IF role = "assistant" THEN "output_image" ELSE "input_image", item.image_url)
    [] item.type = "tool_use"    ->
         Part(IF role = "assistant" THEN "output_text" ELSE "input_text",
              <<"[Tool call]", NL>> \o item.name)
    [] item.type = "tool_result" -> ToolResultPart(item, role)
    [] OTHER                     -> Part(getContentType(role), <<"[Unknown content type]">>)

transformContentArray(content, role) ==
  IF Len(content) = 0
    THEN <<Part(getContentType(role), <<"[Fixed empty content array]">>)>>
    ELSE [i \in 1..Len(content) |-> ContentPartV2(content[i], role)]

\* the text createToolResult and the tool-call branch read from msg.content
ContentText(c) ==
  CASE c.form = "string" -> c.text
    [] c.form = "null"   -> <<"[No output]">>
    [] OTHER             -> <<"json">>

\* createToolResult(msg)
createToolResult(msg) == Part("input_text", <<"[Tool Result]", NL>> \o ContentText(msg.content))

IsTextBlock(b) == b.type = "text"

\* transformMessages, the branch for an assistant message with tool_calls
AssistantToolCallsItem(msg) ==
  LET hasText == \/ msg.content.form = "string"
                 \/ /\ msg.content.form = "array"
                    /\ Len(SelectSeq(msg.content.blocks, IsTextBlock)) > 0
  IN  [role |-> "assistant",
       content |-> <<Part("output_text",
                          IF hasText THEN <<"hello", NL, "[Executing tools]">>
                          ELSE <<"[Executing tools]">>)>>]

\* transformMessages, the branch for every other message
PlainItemV2(msg) ==
  [role |-> msg.role,
   content |->
     CASE msg.content.form = "string" -> <<Part(getContentType(msg.role), msg.content.text)>>
       [] msg.content.form = "array"  -> transformContentArray(msg.content.blocks, msg.role)
       [] OTHER -> <<Part(getContentType(msg.role),
                          IF msg.role = "user" THEN NoStr ELSE <<"[Continuing...]">>)>>]

\* a loop body that hoists system messages to the front of the input
StepV2SystemFirst(msg, transformed) ==
  IF msg.role = "tool"
    THEN IF Len(transformed) > 0 /\ transformed[Len(transformed)].role = "user"
           THEN [transformed EXCEPT ![Len(transformed)].content = Append(@, createToolResult(msg))]
           ELSE Append(transformed, [role |-> "user", content |-> <<createToolResult(msg)>>])
  ELSE IF msg.role = "assistant" /\ msg.tool_calls
    THEN Append(transformed, AssistantToolCallsItem(msg))
  ELSE IF msg.role = "system"
    THEN <<PlainItemV2(msg)>> \o transformed
  ELSE Append(transformed, PlainItemV2(msg))

\* one iteration of the loop of transformMessages
StepV2(msg, transformed) ==
  IF msg.role = "tool"
    THEN IF Len(transformed) > 0 /\ transformed[Len(transformed)].role = "user"
           THEN [transformed EXCEPT ![Len(transformed)].content = Append(@, createToolResult(msg))]
           ELSE Append(transformed, [role |-> "user", content |-> <<createToolResult(msg)>>])
  ELSE IF msg.role = "assistant" /\ msg.tool_calls
    THEN Append(transformed, AssistantToolCallsItem(msg))
  ELSE Append(transformed, PlainItemV2(msg))

RECURSIVE LoopV2(_, _)
LoopV2(messages, transformed) ==
  IF messages = <<>> THEN transformed
  ELSE LoopV2(Tail(messages), StepV2(Head(messages), transformed))

\* the final pass of transformMessages: every part gets a text
SanitizePart(part) ==
  IF part.text = Undefined THEN [part EXCEPT !.text = <<"[Fixed null text]">>] ELSE part

Sanitize(item) ==
  [item EXCEPT !.content = [i \in 1..Len(item.content) |-> SanitizePart(item.content[i])]]

transformMessagesV2(messages) ==
  LET transformed == LoopV2(messages, <<>>)
  IN  [i \in 1..Len(transformed) |-> Sanitize(transformed[i])]

RECURSIVE JoinLines(_)
\* texts.join('\n')
JoinLines(texts) ==
  IF texts = <<>> THEN NoStr
  ELSE IF Len(texts) = 1 THEN texts[1]
  ELSE texts[1] \o <<NL>> \o JoinLines(Tail(texts))

\* ResponsesApiHybridTransformer.extractTextContent(content)
extractTextContent(c) ==
  CASE c.form = "string" -> c.text
    [] c.form = "array"  ->
         LET texts == SelectSeq(c.blocks, IsTextBlock)
         IN  JoinLines([i \in 1..Len(texts) |-> texts[i].text])
    [] OTHER             -> NoStr

IsUserMessage(m) == m.role = "user"

\* transformToResponsesApiWithSystem(request).input
transformToResponsesApiWithSystem(messages) ==
  LET userMessages == SelectSeq(messages, IsUserMessage)
  IN  [i \in 1..Len(userMessages) |->
         [role |-> "user",
          content |-> <<Part("input_text", extractTextContent(userMessages[i].content))>>]]

\* transformRequestIn routes a request to transformToResponsesApiWithSystem
RoutedWithSystem(messages) ==
  /\ \A i \in 1..Len(messages) : messages[i].role # "assistant"
  /\ ~(Len(messages) = 1 /\ messages[1].role = "user")
  /\ \E i \in 1..Len(messages) : messages[i].role = "system"

\* ResponsesApiTransformer.transformMessages: one block; { type: imageType, ...item }
\* lets the properties of item, its type among them, replace the ones before it
ContentPartV1(item, role) ==
  CASE item.type = "text"  -> [type |-> getContentType(role), text |-> item.text]
    [] item.type = "image" ->
         item @@ [type |-> IF role = "assistant" THEN "output_image" ELSE "input_image"]
    [] OTHER               -> item

transformMessagesV1(messages) ==
  [i \in 1..Len(messages) |->
     [role |-> messages[i].role,
      content |->
        CASE messages[i].content.form = "string" ->
               <<[type |-> getContentType(messages[i].role), text |-> messages[i].content.text]>>
          [] messages[i].content.form = "array" ->
               [j \in 1..Len(messages[i].content.blocks) |->
                  ContentPartV1(messages[i].content.blocks[j], messages[i].role)]
          [] OTHER -> <<>>]]

EncIdle == encImpl = "none" /\ encIn = <<>> /\ encOut = <<>>

-----------------------------------------------------------------------------
(* Two requests in flight on one ResponsesApiV2Transformer *)

ReqNames == {"A", "B"}

\* the streamed bodies the two responses may have
ConcBodies ==
  { <<"created", "added_msg", "text_delta", "completed">>,
    <<"created", "added_fc_a", "fc_delta", "completed">>,
    \* two function calls, one after the other and overlapping
    <<"added_fc_a", "fc_delta_a1", "fc_delta_a2", "fc_done_a",
      "added_fc_b", "fc_delta_b", "fc_done_b", "completed">>,
    <<"added_fc_a", "fc_delta_a1", "added_fc_b", "fc_delta_b", "fc_delta_a2",
      "fc_done_a", "fc_done_b", "completed">> }

NoFlight ==
  [model |-> NoStr, events |-> <<>>, phase |-> "none", pos |-> 0,
   st |-> InitStreamState, frames |-> <<>>]

NewFlight(model, events) ==
  [model |-> model, events |-> events, phase |-> "new", pos |-> 0,
   st |-> InitStreamState, frames |-> <<>>]

ConcIdle == flights = [r \in ReqNames |-> NoFlight]

-----------------------------------------------------------------------------
(* Request transformers: maxtoken, o3, openai-response-format, openai-unified *)

GPT35 == <<"gpt-", "3.5-turbo">>

XfModels == {O3, O3MINI, O4MINI, O1, GPT4O, GPT4OMINI, GPT35}

\* /\bjson\b/i.test(text)
JsonWords == {"json", "JSON", "Json"}
HasJsonWord(text) == \E i \in 1..Len(text) : text[i] \in JsonWords

\* '\n\nPlease respond in JSON format.'
JsonInstruction == <<NL, NL, "Please", SP, "respond", SP, "in", SP, "JSON", SP, "format.">>
\* '\n\nIMPORTANT: Your response must be valid JSON only, ...'
O1Instruction == <<NL, NL, "IMPORTANT:", SP, "valid", SP, "JSON", SP, "only">>
\* '\n\nYour response must follow this JSON schema:\n...'
SchemaInstruction == <<NL, NL, "follow", SP, "this", SP, "JSON", SP, "schema:">>

StringContent(text) == [form |-> "string", text |-> text, blocks |-> <<>>]
ArrayContent(blocks) == [form |-> "array", text |-> NoStr, blocks |-> blocks]
Msg(role, content)  == [role |-> role, content |-> content]

XfMessageLists ==
  { <<Msg("user", StringContent(<<"hello">>))>>,
    <<Msg("user", StringContent(<<"reply", SP, "as", SP, "json">>))>>,
    <<Msg("user", ArrayContent(<<TextBlock>>))>>,
    <<Msg("user", ArrayContent(<<ImageUrlBlock>>))>>,
    <<Msg("user", ArrayContent(<<TextBlock, ImageUrlBlock>>))>>,
    <<Msg("system", StringContent(<<"hello">>))>>,
    <<Msg("user", StringContent(<<"hello">>)), Msg("assistant", StringContent(<<"hello">>))>> }

\* response_format: type "none" stands for an absent field; strict is the
\* strict property of json_schema
ResponseFormats ==
  { [type |-> "none", strict |-> "undefined"],
    [type |-> "json_object", strict |-> "undefined"],
    [type |-> "json_schema", strict |-> "undefined"] }

NoResponseFormat == [type |-> "none", strict |-> "undefined"]

XfRequests ==
  [model : XfModels, max_tokens : {0, 8000}, max_completion_tokens : {0, 100},
   response_format : ResponseFormats, prediction : BOOLEAN, tools : BOOLEAN,
   messages : XfMessageLists]

NoXfRequest ==
  [model |-> NoStr, max_tokens |-> 0, max_completion_tokens |-> 0,
   response_format |-> NoResponseFormat, prediction |-> FALSE, tools |-> FALSE,
   messages |-> <<>>]

\* the outcome of one call: the input object afterwards, what was returned, whether it threw
Outcome(input, ret, error) == [input |-> input, ret |-> ret, error |-> error]

\* c.text || ''
TextOf(block) == IF block.text = Undefined THEN NoStr ELSE block.text

\* messages.findLastIndex(msg => msg.role === 'user'), 0 when there is none
LastUserIndex(messages) ==
  IF \E i \in 1..Len(messages) : messages[i].role = "user"
    THEN CHOOSE i \in 1..Len(messages) :
            /\ messages[i].role = "user"
            /\ \A j \in (i + 1)..Len(messages) : messages[j].role # "user"
    ELSE 0

\* content.findLast(c => c.type === 'text') as an index, 0 when there is none
LastTextIndex(blocks) ==
  IF \E i \in 1..Len(blocks) : blocks[i].type = "text"
    THEN CHOOSE i \in 1..Len(blocks) :
            /\ blocks[i].type = "text"
            /\ \A j \in (i + 1)..Len(blocks) : blocks[j].type # "text"
    ELSE 0

\* msg.content += instruction for a string; lastText.text += instruction for an
\* array that has a text part; otherwise the message stays as it is
AppendInstruction(msg, instruction) ==
  IF msg.content.form = "string"
    THEN [msg EXCEPT !.content.text = @ \o instruction]
  ELSE IF msg.content.form = "array" /\ LastTextIndex(msg.content.blocks) > 0
    THEN [msg EXCEPT !.content.blocks[LastTextIndex(msg.content.blocks)].text = @ \o instruction]
  ELSE msg

\* addJsonInstructionsToPrompt / addSchemaInstructionsToPrompt: strings only
AppendToString(msg, instruction) ==
  IF msg.content.form = "string" THEN [msg EXCEPT !.content.text = @ \o instruction] ELSE msg

AppendToLastUser(messages, instruction) ==
  IF LastUserIndex(messages) > 0
    THEN [messages EXCEPT ![LastUserIndex(messages)] = AppendInstruction(@, instruction)]
    ELSE messages

AppendStringToLastUser(messages, instruction) ==
  IF LastUserIndex(messages) > 0
    THEN [messages EXCEPT ![LastUserIndex(messages)] = AppendToString(@, instruction)]
    ELSE messages

RECURSIVE JoinTexts(_)
\* blocks.map(c => c.text || '').join(' ')
JoinTexts(blocks) ==
  IF blocks = <<>> THEN <<>>
  ELSE IF Len(blocks) = 1 THEN TextOf(blocks[1])
  ELSE TextOf(blocks[1]) \o <<SP>> \o JoinTexts(Tail(blocks))

\* O3Transformer.ensureJsonKeyword: hasJsonKeyword
HasJsonKeywordO3(messages) ==
  \E i \in 1..Len(messages) :
     HasJsonWord(IF messages[i].content.form = "string" THEN messages[i].content.text
                 ELSE JoinTexts(messages[i].content.blocks))

\* OpenAIUnifiedTransformer.getMessageContent
getMessageContent(msg) ==
  IF msg.content.form = "string" THEN msg.content.text
  ELSE JoinTexts(SelectSeq(msg.content.blocks, IsTextBlock))

HasJsonKeywordUnified(messages) ==
  \E i \in 1..Len(messages) : HasJsonWord(getMessageContent(messages[i]))

\* OpenAIResponseFormatTransformer.checkForJsonKeyword
checkForJsonKeyword(messages) ==
  \E i \in 1..Len(messages) :
     IF messages[i].content.form = "string" THEN HasJsonWord(messages[i].content.text)
     ELSE \E j \in 1..Len(messages[i].content.blocks) :
             /\ messages[i].content.blocks[j].type = "text"
             /\ HasJsonWord(messages[i].content.blocks[j].text)

IsJsonMode(rf) == rf.type \in {"json_object", "json_schema"}

Min(a, b) == IF a < b THEN a ELSE b

\* the limits a MaxTokenTransformer may be constructed with; 0: no option given
MaxTokenOptions == {0, 4096}

\* MaxTokenTransformer.transformRequestIn: assigns to the request it was given
MaxTokenTransformRequestIn(req, limit) ==
  IF limit = 0 THEN Outcome(req, req, FALSE)
  ELSE LET r == [req EXCEPT
                   !.max_tokens = IF @ # 0 THEN Min(@, limit) ELSE @,
                   !.max_completion_tokens = IF @ # 0 THEN Min(@, limit) ELSE @]
       IN  Outcome(r, r, FALSE)

\* O3_MODELS.some(model => request.model.includes(model))
isO3Model(model) == \E pat \in {O3, O3PRO, O4MINI, O3MINI, O3MINIDATE} : Includes(model, pat)

\* O3Transformer.transformRequestIn: { ...request } copies the top level only,
\* so the messages ensureJsonKeyword writes to are those of the input
O3TransformRequestIn(req) ==
  IF ~isO3Model(req.model) THEN Outcome(req, req, FALSE)
  ELSE LET msgs == IF IsJsonMode(req.response_format) /\ ~HasJsonKeywordO3(req.messages)
                     THEN AppendToLastUser(req.messages, JsonInstruction)
                     ELSE req.messages
           o3Request == [req EXCEPT
                           !.max_completion_tokens = IF req.max_tokens # 0 THEN req.max_tokens ELSE @,
                           !.max_tokens = 0,
                           !.prediction = FALSE,
                           !.messages = msgs]
       IN  Outcome([req EXCEPT !.messages = msgs], o3Request, FALSE)

GPT4ODATED == <<"gpt-", "4o", "-2024-08-06">>
O1MINI     == <<"o1", "-mini">>
GPT4TURBO  == <<"gpt-", "4-turbo">>

STRUCTURED_OUTPUT_MODELS == {GPT4OMINI, GPT4ODATED, O1, O1MINI}
JSON_MODE_MODELS == STRUCTURED_OUTPUT_MODELS \cup {GPT35, GPT4TURBO}

\* "You are a helpful assistant that responds in JSON format."
JsonSystemMessage ==
  Msg("system", StringContent(<<"You", SP, "respond", SP, "in", SP, "JSON", SP, "format.">>))

\* OpenAIResponseFormatTransformer.transformRequestIn: works on the request it
\* was given and returns it
RFTransformRequestIn(req) ==
  LET type == req.response_format.type
  IN  IF type = "none" THEN Outcome(req, req, FALSE)
      ELSE IF type = "json_schema"
                /\ ~\E m \in STRUCTURED_OUTPUT_MODELS : Includes(req.model, m)
        THEN Outcome(req, NoXfRequest, TRUE)
      ELSE IF type = "json_object" /\ ~\E m \in JSON_MODE_MODELS : Includes(req.model, m)
        THEN Outcome(req, NoXfRequest, TRUE)
      ELSE LET strict == IF type = "json_schema" /\ req.response_format.strict = "undefined"
                           THEN "true" ELSE req.response_format.strict
               msgs   == IF ~IsJsonMode(req.response_format) \/ checkForJsonKeyword(req.messages)
                           THEN req.messages
                         ELSE IF LastUserIndex(req.messages) > 0
                           THEN AppendToLastUser(req.messages, JsonInstruction)
                         ELSE <<JsonSystemMessage>> \o req.messages
               r      == [req EXCEPT !.response_format.strict = strict, !.messages = msgs]
           IN  Outcome(r, r, FALSE)

\* MODEL_CATEGORIES and getModelCategory: the first category one of whose model
\* names the model includes, gpt4o's features for an unknown model
Features(maxCompletion, responseFormat, prediction, tools) ==
  [useMaxCompletionTokens |-> maxCompletion, supportsResponseFormat |-> responseFormat,
   supportsPrediction |-> prediction, supportsTools |-> tools]

getModelCategory(model) ==
  IF \E m \in {O3, O3MINI, O3MINIDATE} : Includes(model, m)
    THEN [name |-> "o3", features |-> Features(TRUE, TRUE, FALSE, FALSE)]
  ELSE IF \E m \in {O1, O1MINI} : Includes(model, m)
    THEN [name |-> "o1", features |-> Features(TRUE, FALSE, FALSE, FALSE)]
  ELSE IF \E m \in {GPT4O, GPT4OMINI, GPT4ODATED} : Includes(model, m)
    THEN [name |-> "gpt4o", features |-> Features(FALSE, TRUE, TRUE, TRUE)]
  ELSE IF \E m \in {GPT35} : Includes(model, m)
    THEN [name |-> "gpt35", features |-> Features(FALSE, TRUE, FALSE, TRUE)]
  ELSE [name |-> "unknown", features |-> Features(FALSE, TRUE, TRUE, TRUE)]

\* OpenAIUnifiedTransformer.transformRequestIn: top-level fields are changed on
\* the copy { ...request }; the messages and the response_format object are
\* those of the input
UnifiedTransformRequestIn(req) ==
  LET category == getModelCategory(req.model)
      f        == category.features
      rf       == req.response_format
      hasRf    == rf.type # "none"
      \* handle max_tokens vs max_completion_tokens
      maxTok   == IF f.useMaxCompletionTokens THEN 0
                  ELSE IF req.max_completion_tokens # 0 /\ req.max_tokens = 0
                    THEN req.max_completion_tokens ELSE req.max_tokens
      maxCompl == IF f.useMaxCompletionTokens
                    THEN (IF req.max_tokens # 0 THEN req.max_tokens ELSE req.max_completion_tokens)
                  ELSE IF req.max_completion_tokens # 0 /\ req.max_tokens = 0
                    THEN 0 ELSE req.max_completion_tokens
      \* validateResponseFormat: ensureJsonKeyword, then the gpt35 conversion
      ensured  == IF IsJsonMode(rf) /\ ~HasJsonKeywordUnified(req.messages)
                    THEN AppendToLastUser(req.messages, JsonInstruction)
                    ELSE req.messages
      toObject == category.name = "gpt35" /\ rf.type = "json_schema"
      msgs     == IF ~hasRf THEN req.messages
                  ELSE IF ~f.supportsResponseFormat
                    THEN (IF category.name = "o1"
                            THEN AppendStringToLastUser(req.messages, O1Instruction)
                            ELSE req.messages)
                  ELSE IF toObject THEN AppendStringToLastUser(ensured, SchemaInstruction)
                  ELSE ensured
      \* response_format.json_schema.strict = true on the object of the input
      rfShared == IF hasRf /\ f.supportsResponseFormat /\ rf.type = "json_schema"
                     /\ rf.strict = "undefined"
                    THEN [rf EXCEPT !.strict = "true"] ELSE rf
      rfRet    == IF ~hasRf THEN rf
                  ELSE IF ~f.supportsResponseFormat THEN NoResponseFormat
                  ELSE IF toObject THEN [type |-> "json_object", strict |-> "undefined"]
                  ELSE rfShared
      ret      == [req EXCEPT
                     !.max_tokens = maxTok, !.max_completion_tokens = maxCompl,
                     !.response_format = rfRet,
                     !.prediction = req.prediction /\ f.supportsPrediction,
                     !.tools = req.tools /\ f.supportsTools,
                     !.messages = msgs]
  IN  Outcome([req EXCEPT !.messages = msgs, !.response_format = rfShared], ret, FALSE)

XfIdle ==
  /\ xf = "none" /\ reqBefore = NoXfRequest /\ reqAfter = NoXfRequest
  /\ reqRet = NoXfRequest /\ xfError = FALSE

-----------------------------------------------------------------------------
(* Idle parts: the variables of the machines a specification does not run *)

StreamIdle ==
  /\ impl = "none" /\ upstream = <<>> /\ pos = 0 /\ streamState = InitStreamState
  /\ out = <<>> /\ outState = "readable" /\ pc = "idle" /\ readsAfterCancel = 0

TokIdle ==
  /\ tokReq = [model |-> O3, max_tokens |-> 0, max_completion_tokens |-> 0,
               tools |-> 0, messages |-> 1]
  /\ tokCalc = NoCalc /\ tokPrev = 0 /\ tokRounds = 0

-----------------------------------------------------------------------------
(* The streamed path as a state machine *)

Init ==
  /\ impl \in {"v2", "v1", "unified"}
  /\ upstream \in (CASE impl = "v2" -> Bodies(BlockLines) \cup Bodies(FramingLines)
                     [] impl = "v1" -> Bodies(FramingLines)
                     [] OTHER       -> Bodies(ULines))
  /\ pos = 0
  /\ streamState = InitStreamState
  /\ out = <<>>
  /\ outState = "readable"
  /\ pc = "reading"
  /\ readsAfterCancel = 0
  /\ TokIdle /\ InstIdle /\ EncIdle /\ ConcIdle /\ XfIdle

\* reader.read() delivers the next chunk (v2): any non-empty run of tokens
ReadV2 ==
  /\ impl = "v2" /\ pc = "reading" /\ outState = "readable" /\ pos < Len(upstream)
  /\ \E k \in 1..(Len(upstream) - pos) :
       LET r == HandleChunkV2(SubSeq(upstream, pos + 1, pos + k), streamState, CurrentModel)
       IN  /\ pos' = pos + k
           /\ streamState' = r.st
           /\ out' = out \o r.frames
  /\ UNCHANGED <<readsAfterCancel, impl, upstream, outState, pc, tokVars, instVars, encVars, concVars, xfVars>>

\* reader.read() reports done (v2): break, releaseLock, controller.close()
ReadDoneV2 ==
  /\ impl = "v2" /\ pc = "reading" /\ outState = "readable" /\ pos = Len(upstream)
  /\ outState' = "closed"
  /\ pc' = "done"
  /\ UNCHANGED <<readsAfterCancel, impl, upstream, pos, streamState, out, tokVars, instVars, encVars, concVars, xfVars>>

\* reader.read() delivers the next chunk (v1)
ReadV1 ==
  /\ impl = "v1" /\ pc = "reading" /\ outState = "readable" /\ pos < Len(upstream)
  /\ \E k \in 1..(Len(upstream) - pos) :
       LET r == HandleChunkV1(SubSeq(upstream, pos + 1, pos + k), streamState)
       IN  /\ pos' = pos + k
           /\ streamState' = r.st
           /\ out' = out \o r.frames
  /\ UNCHANGED <<readsAfterCancel, impl, upstream, outState, pc, tokVars, instVars, encVars, concVars, xfVars>>

\* done (v1): a non-blank remainder is enqueued as it is, break,
\* controller.close()
ReadDoneV1 ==
  /\ impl = "v1" /\ pc = "reading" /\ outState = "readable" /\ pos = Len(upstream)
  /\ out' = out \o FlushUnified(streamState.buffer)
  /\ outState' = "closed"
  /\ pc' = "done"
  /\ UNCHANGED <<readsAfterCancel, impl, upstream, pos, streamState, tokVars, instVars, encVars, concVars, xfVars>>

ReadUnified ==
  /\ impl = "unified" /\ pc = "reading" /\ outState = "readable" /\ pos < Len(upstream)
  /\ \E k \in 1..(Len(upstream) - pos) :
       LET r == HandleChunkUnified(SubSeq(upstream, pos + 1, pos + k), streamState.buffer)
       IN  /\ pos' = pos + k
           /\ streamState' = [streamState EXCEPT !.buffer = r.buffer]
           /\ out' = out \o r.frames
  /\ UNCHANGED <<readsAfterCancel, impl, upstream, outState, pc, tokVars, instVars, encVars, concVars, xfVars>>

\* done (unified): flush the remainder, break, controller.close()
ReadDoneUnified ==
  /\ impl = "unified" /\ pc = "reading" /\ outState = "readable" /\ pos = Len(upstream)
  /\ out' = out \o FlushUnified(streamState.buffer)
  /\ outState' = "closed"
  /\ pc' = "done"
  /\ UNCHANGED <<readsAfterCancel, impl, upstream, pos, streamState, tokVars, instVars, encVars, concVars, xfVars>>

\* reader.read() rejects: catch -> controller.error(error); the close() in
\* finally then throws on the errored stream and changes nothing.
ReadError ==
  /\ pc = "reading" /\ outState = "readable"
  /\ outState' = "errored"
  /\ pc' = "done"
  /\ UNCHANGED <<readsAfterCancel, impl, upstream, pos, streamState, out, tokVars, instVars, encVars, concVars, xfVars>>

Next ==
  \/ ReadV2 \/ ReadDoneV2 \/ ReadV1 \/ ReadDoneV1
  \/ ReadUnified \/ ReadDoneUnified \/ ReadError

Spec == Init /\ [][Next]_vars

-----------------------------------------------------------------------------
(* The client cancels the output stream while the response is being read *)

CancelLines  == {DataLine("text_delta"), DoneLine}
UCancelLines == {DataLine("u_content"), DoneLine}

CancelInit ==
  /\ impl \in {"v2", "v1", "unified"}
  /\ upstream \in (IF impl = "unified" THEN Bodies(UCancelLines) ELSE Bodies(CancelLines))
  /\ pos = 0
  /\ streamState = InitStreamState
  /\ out = <<>>
  /\ outState = "readable"
  /\ pc = "reading"
  /\ readsAfterCancel = 0
  /\ TokIdle /\ InstIdle /\ EncIdle /\ ConcIdle /\ XfIdle

\* The consumer cancels the stream returned by handleStreamingResponse. The
\* underlying source has a start() method only, no cancel(): the stream is
\* closed to the consumer and nothing reaches the read loop.
Cancel ==
  /\ pc = "reading" /\ outState = "readable"
  /\ outState' = "cancelled"
  /\ UNCHANGED <<readsAfterCancel, impl, upstream, pos, streamState, out, pc,
                 tokVars, instVars, encVars, concVars, xfVars>>

\* the complete lines the for loop sees when `chunk` arrives
CompleteLines(buffer, chunk) ==
  LET segments == SplitNL(buffer \o chunk)
  IN  SubSeq(segments, 1, Len(segments) - 1)

\* On a cancelled stream controller.enqueue throws. v2 and v1 enqueue their
\* chunks inside the try around JSON.parse, whose catch only logs, and the
\* [DONE] line outside it; the unified reader enqueues every line outside the
\* try or again in its catch. An exception that leaves the for loop reaches
\* the outer catch and ends the read loop.
EnqueueEscapes(which, lines) ==
  IF which = "unified"
    THEN lines # <<>>
    ELSE \E i \in 1..Len(lines) : lines[i] = DoneLine

\* reader.read() delivers a chunk after the cancel
ReadAfterCancel ==
  /\ pc = "reading" /\ outState = "cancelled" /\ pos < Len(upstream)
  /\ \E k \in 1..(Len(upstream) - pos) :
       LET chunk == SubSeq(upstream, pos + 1, pos + k)
       IN  /\ pos' = pos + k
           /\ streamState' =
                 (CASE impl = "v2" -> HandleChunkV2(chunk, streamState, CurrentModel).st
                    [] impl = "v1" -> HandleChunkV1(chunk, streamState).st
                    [] OTHER       -> [streamState EXCEPT !.buffer =
                                         HandleChunkUnified(chunk, streamState.buffer).buffer])
           /\ pc' = IF EnqueueEscapes(impl, CompleteLines(streamState.buffer, chunk))
                      THEN "done" ELSE "reading"
  /\ readsAfterCancel' = readsAfterCancel + 1
  /\ UNCHANGED <<impl, upstream, out, outState, tokVars, instVars, encVars, concVars, xfVars>>

\* reader.read() reports done, or rejects, after the cancel: the loop ends;
\* controller.error on a closed stream does nothing and controller.close()
\* throws
ReadDoneAfterCancel ==
  /\ pc = "reading" /\ outState = "cancelled"
  /\ pc' = "done"
  /\ readsAfterCancel' = readsAfterCancel + 1
  /\ UNCHANGED <<impl, upstream, pos, streamState, out, outState,
                 tokVars, instVars, encVars, concVars, xfVars>>

NextCancel ==
  \/ ReadV2 \/ ReadDoneV2 \/ ReadV1 \/ ReadDoneV1
  \/ ReadUnified \/ ReadDoneUnified \/ ReadError
  \/ Cancel \/ ReadAfterCancel \/ ReadDoneAfterCancel

SpecCancel == CancelInit /\ [][NextCancel]_vars

-----------------------------------------------------------------------------
(* calculateOptimalTokens applied, and applied again to its own result *)

MaxReapply == 2    \* how often the total is fed back

TokInit ==
  /\ tokReq \in TokenRequests
  /\ tokCalc = NoCalc /\ tokPrev = 0 /\ tokRounds = 0
  /\ StreamIdle /\ InstIdle /\ EncIdle /\ ConcIdle /\ XfIdle

\* buildResponsesApiRequest: tokenCalc = this.calculateOptimalTokens(request)
Calculate ==
  /\ tokCalc = NoCalc
  /\ tokCalc' = calculateOptimalTokens(tokReq)
  /\ UNCHANGED <<tokReq, tokPrev, tokRounds, streamVars, instVars, encVars, concVars, xfVars>>

\* the computed total comes back as the requested limit, everything else equal
FeedBack ==
  /\ tokCalc # NoCalc
  /\ tokRounds < MaxReapply
  /\ tokRounds' = tokRounds + 1
  /\ tokPrev' = tokCalc.total
  /\ tokReq' = [tokReq EXCEPT !.max_tokens = tokCalc.total]
  /\ tokCalc' = calculateOptimalTokens(tokReq')
  /\ UNCHANGED <<streamVars, instVars, encVars, concVars, xfVars>>

TokNext == Calculate \/ FeedBack

SpecTokens == TokInit /\ [][TokNext]_vars

-----------------------------------------------------------------------------
(* One transformer instance: requests encoded, responses decoded *)

InstInit ==
  /\ options \in [alwaysContinueWithTools : BOOLEAN, continuousExecution : BOOLEAN]
  /\ conversationStates = [k \in StateKeys |-> NoConversationState]
  /\ toolCallMap = {}
  /\ currentModel = NoStr
  /\ pending = NoRequest
  /\ reqOut = NoRequest
  /\ last = NoExchange
  /\ answered = [k \in ConvKeys |-> ""]
  /\ respKeys = [r \in ResponseIds |-> {}]
  /\ callKeys = [c \in CallIds |-> {}]
  /\ rounds = 0
  /\ StreamIdle /\ TokIdle /\ EncIdle /\ ConcIdle /\ XfIdle

\* transformRequestIn(request) for a Responses-API model
TransformRequestIn ==
  /\ ~pending.encoded /\ rounds < MaxRounds
  /\ \E req \in Requests :
       /\ currentModel' = req.model
       /\ reqOut' = [model |-> req.model, conversation_id |-> req.conversation_id,
                     previous_response_id |->
                        PreviousResponseId(req.conversation_id, conversationStates),
                     encoded |-> TRUE]
       /\ pending' = reqOut'
  /\ last' = NoExchange
  /\ rounds' = rounds + 1
  /\ UNCHANGED <<options, conversationStates, toolCallMap, answered, respKeys, callKeys,
                 streamVars, tokVars, encVars, concVars, xfVars>>

\* the history of the claim: the response id processed for the pending key
Answered(id) ==
  IF pending.conversation_id # "" /\ id # ""
    THEN [answered EXCEPT ![pending.conversation_id] = id]
    ELSE answered

\* transformResponseOut -> handleNonStreamingResponse(response)
HandleNonStreamingResponse ==
  /\ pending.encoded
  /\ \E resp \in JsonResponses :
       \* a response carries no conversation_id or the one of its request
       /\ resp.conversation_id \in {"", pending.conversation_id}
       /\ conversationStates' =
            IF enableStateful
              THEN updateConversationState(resp, conversationStates, toolCallMap)
              ELSE conversationStates
       /\ toolCallMap' = toolCallMap \cup TrackedCalls(resp)
       /\ last' = [kind |-> "json", resp |-> resp, events |-> <<>>,
                   result |-> transformResponseToOpenAI(resp, options, currentModel),
                   frames |-> <<>>, conversation_id |-> pending.conversation_id,
                   received |-> Http(200, "response"),
                   returned |-> Http(200, "chat.completion")]
       /\ answered' = Answered(resp.id)
       /\ respKeys' = [r \in ResponseIds |->
                         IF r = resp.id THEN respKeys[r] \cup {pending.conversation_id}
                         ELSE respKeys[r]]
       /\ callKeys' = [c \in CallIds |->
                         IF c \in TrackedCalls(resp) THEN callKeys[c] \cup {pending.conversation_id}
                         ELSE callKeys[c]]
  /\ pending' = NoRequest
  /\ UNCHANGED <<options, currentModel, reqOut, rounds, streamVars, tokVars, encVars, concVars, xfVars>>

\* the response_id a streamed body announces ("": none)
StreamedResponseId(events) ==
  IF \E i \in 1..Len(events) : events[i] = "created" THEN V2Event("created").response_id ELSE ""

\* the positions of the events that open a function-call item
CallStarts(events) ==
  SelectSeq([i \in 1..Len(events) |-> i],
            LAMBDA i : V2Event(events[i]).item_type = "function_call")

RECURSIVE ConcatDeltas(_, _, _)
\* the argument deltas of events[from..to], joined
ConcatDeltas(events, from, to) ==
  IF from > to THEN NoStr
  ELSE (IF V2Event(events[from]).type = "response.function_call.delta"
          THEN V2Event(events[from]).delta ELSE NoStr)
         \o ConcatDeltas(events, from + 1, to)

\* the function calls the upstream sent in a stream, each with its whole
\* arguments string: the deltas between its item and the next one
UpstreamCalls(events) ==
  LET starts == CallStarts(events)
  IN  [k \in 1..Len(starts) |->
         FunctionCallItem(V2Event(events[starts[k]]).call_id,
                          V2Event(events[starts[k]]).name,
                          ConcatDeltas(events, starts[k] + 1,
                                       IF k < Len(starts) THEN starts[k + 1] - 1
                                                          ELSE Len(events)))]

\* the non-streamed response that carries the same function calls
EquivalentResponse(events) ==
  [id |-> StreamedResponseId(events), status |-> "completed", conversation_id |-> "",
   output |-> UpstreamCalls(events)]

\* transformResponseOut -> handleStreamingResponse(response), read to its end
HandleStreamingResponse ==
  /\ pending.encoded
  /\ \E events \in StreamedBodies :
       /\ last' = [kind |-> "stream", resp |-> NoResponse, events |-> events,
                   result |-> NoResult,
                   frames |-> HandleChunkV2(BodyOf(events), InitStreamState, currentModel).frames,
                   conversation_id |-> pending.conversation_id,
                   received |-> Http(200, "event-stream"),
                   returned |-> Http(200, "event-stream")]
       /\ answered' = Answered(StreamedResponseId(events))
  /\ pending' = NoRequest
  /\ UNCHANGED <<options, conversationStates, toolCallMap, currentModel, reqOut, rounds,
                 respKeys, callKeys, streamVars, tokVars, encVars, concVars, xfVars>>

\* transformResponseOut -> handleNonStreamingResponse(response) for an upstream
\* failure. An error object parses, has no id and no output, and is transformed
\* like any response; a body that is not JSON makes response.json() throw after
\* it has read the body, and the catch returns the response it was given.
HandleErrorResponse ==
  /\ pending.encoded
  /\ \E status \in ErrorStatuses, body \in ErrorBodies :
       last' = [kind |-> "error", resp |-> NoResponse, events |-> <<>>,
                result |-> IF body = "error_object"
                             THEN transformResponseToOpenAI(NoResponse, options, currentModel)
                             ELSE NoResult,
                frames |-> <<>>, conversation_id |-> pending.conversation_id,
                received |-> Http(status, body),
                returned |-> IF body = "error_object"
                               THEN Http(status, "chat.completion")
                               ELSE Http(status, "disturbed")]
  /\ pending' = NoRequest
  /\ UNCHANGED <<options, conversationStates, toolCallMap, currentModel, reqOut, rounds,
                 answered, respKeys, callKeys, streamVars, tokVars, encVars, concVars, xfVars>>

InstNext ==
  \/ TransformRequestIn
  \/ HandleNonStreamingResponse
  \/ HandleStreamingResponse
  \/ HandleErrorResponse

SpecInstance == InstInit /\ [][InstNext]_vars

-----------------------------------------------------------------------------
(* ResponsesApiV2Transformer in front of a model it passes through *)

\* the entries of RESPONSES_API_MODELS that the others contain as substrings
RESPONSES_API_MODELS == {GPT4O, GPT41, O1, O3, O4MINI}

isResponsesApiModel(model) == \E m \in RESPONSES_API_MODELS : Includes(model, m)

PassThroughModels == {GPT35, GPT4TURBO}
PassThroughRequests == [model : PassThroughModels, conversation_id : ConvKeys \cup {""}]

\* the choice of a chat.completion body, in the fields of a decoded result
ChatToolCall == [id |-> "call_a", name |-> "read", arguments |-> <<"{}">>]
ChatBodies ==
  { [id |-> id, model |-> m, content_null |-> FALSE, content |-> <<"Hello">>,
     tool_calls |-> <<>>, finish_reason |-> f] :
       id \in {"chatcmpl-1", "chatcmpl-2"}, m \in PassThroughModels, f \in {"stop", "length"} }
  \cup
  { [id |-> id, model |-> m, content_null |-> TRUE, content |-> NoStr,
     tool_calls |-> calls, finish_reason |-> IF calls = <<>> THEN "stop" ELSE "tool_calls"] :
       id \in {"chatcmpl-1", "chatcmpl-2"}, m \in PassThroughModels,
       calls \in {<<>>, <<ChatToolCall>>} }

\* what `await response.json() as ResponsesApiResponse` gives for such a body:
\* its id, and neither status nor conversation_id nor output
AsResponsesApiResponse(body) ==
  [id |-> body.id, status |-> "undefined", conversation_id |-> "", output |-> <<>>]

PassInit ==
  /\ options \in OptionSets
  /\ conversationStates = [k \in StateKeys |-> NoConversationState]
  /\ toolCallMap = {}
  /\ currentModel = NoStr
  /\ pending = NoRequest
  /\ reqOut = NoRequest
  /\ last = NoExchange
  /\ answered = [k \in ConvKeys |-> ""]
  /\ respKeys = [r \in ResponseIds |-> {}]
  /\ callKeys = [c \in CallIds |-> {}]
  /\ rounds = 0
  /\ StreamIdle /\ TokIdle /\ EncIdle /\ ConcIdle /\ XfIdle

\* transformRequestIn(request) for a model that is not a Responses-API model:
\* the model is stored and the request is returned as it came
PassThroughRequestIn ==
  /\ pending = NoRequest /\ rounds < MaxRounds
  /\ \E req \in PassThroughRequests :
       /\ ~isResponsesApiModel(req.model)
       /\ currentModel' = req.model
       /\ reqOut' = [model |-> req.model, conversation_id |-> req.conversation_id,
                     previous_response_id |-> "", encoded |-> FALSE]
       /\ pending' = reqOut'
  /\ last' = NoExchange
  /\ rounds' = rounds + 1
  /\ UNCHANGED <<options, conversationStates, toolCallMap, answered, respKeys, callKeys,
                 streamVars, tokVars, encVars, concVars, xfVars>>

\* transformResponseOut -> handleNonStreamingResponse(response) for the answer
\* to a passed-through request, a chat.completion body: the body carries its
\* own model, which response.model || this.currentModel returns
HandleChatCompletionResponse ==
  /\ pending # NoRequest /\ ~pending.encoded
  /\ \E body \in ChatBodies :
       /\ body.model = pending.model
       /\ conversationStates' =
            IF enableStateful
              THEN updateConversationState(AsResponsesApiResponse(body),
                                           conversationStates, toolCallMap)
              ELSE conversationStates
       /\ last' = [kind |-> "chat", resp |-> AsResponsesApiResponse(body), events |-> <<>>,
                   result |-> transformResponseToOpenAI(AsResponsesApiResponse(body),
                                                        options, body.model),
                   frames |-> <<>>, conversation_id |-> pending.conversation_id,
                   received |-> Http(200, "chat.completion"),
                   returned |-> Http(200, "chat.completion"),
                   chat |-> body]
  /\ pending' = NoRequest
  /\ UNCHANGED <<options, toolCallMap, currentModel, reqOut, rounds, answered, respKeys,
                 callKeys, streamVars, tokVars, encVars, concVars, xfVars>>

PassNext == PassThroughRequestIn \/ HandleChatCompletionResponse

SpecPassThrough == PassInit /\ [][PassNext]_vars

-----------------------------------------------------------------------------
(* Building the input of a Responses-API request *)

EncInit == EncIdle /\ StreamIdle /\ TokIdle /\ InstIdle /\ ConcIdle /\ XfIdle

\* ResponsesApiV2Transformer.buildResponsesApiRequest: input
TransformMessagesV2 ==
  /\ encImpl = "none"
  /\ \E messages \in MessageLists :
       /\ encIn' = messages
       /\ encOut' = transformMessagesV2(messages)
  /\ encImpl' = "v2"
  /\ UNCHANGED <<streamVars, tokVars, instVars, concVars, xfVars>>

\* ResponsesApiTransformer.transformRequestIn: input
TransformMessagesV1 ==
  /\ encImpl = "none"
  /\ \E messages \in MessageLists :
       /\ encIn' = messages
       /\ encOut' = transformMessagesV1(messages)
  /\ encImpl' = "v1"
  /\ UNCHANGED <<streamVars, tokVars, instVars, concVars, xfVars>>

\* ResponsesApiHybridTransformer.transformRequestIn: input, for a request with
\* a system message and no assistant message
TransformHybrid ==
  /\ encImpl = "none"
  /\ \E messages \in MessageLists :
       /\ RoutedWithSystem(messages)
       /\ encIn' = messages
       /\ encOut' = transformToResponsesApiWithSystem(messages)
  /\ encImpl' = "hybrid"
  /\ UNCHANGED <<streamVars, tokVars, instVars, concVars, xfVars>>

EncNext == TransformMessagesV2 \/ TransformMessagesV1 \/ TransformHybrid

SpecEncode == EncInit /\ [][EncNext]_vars

-----------------------------------------------------------------------------
(* ResponsesApiTransformer decoding a non-streamed response *)

MessageStatuses == {"completed", "incomplete", "undefined"}

\* handleNonStreamingResponse: transformToOpenAIFormat(jsonResponse)
TransformToOpenAIFormat ==
  /\ encImpl = "none"
  /\ \E resp \in JsonResponses, messageStatus \in MessageStatuses :
       /\ encIn' = [resp |-> resp, messageStatus |-> messageStatus]
       /\ encOut' = transformToOpenAIFormat(resp, messageStatus)
  /\ encImpl' = "decode_v1"
  /\ UNCHANGED <<streamVars, tokVars, instVars, concVars, xfVars>>

SpecDecode == EncInit /\ [][TransformToOpenAIFormat]_vars

-----------------------------------------------------------------------------
(* ResponsesApiV2Transformer, first definition in the file: the finish reason *)

\* the models the first definition is constructed for in this development
FirstModels == {O3, O4MINI, GPT4O, GPT41}

\* shouldContinue(response, hasContent). The texts of this development are
\* short and carry no continuation phrase, list marker, trailing comma or
\* ellipsis, so rule 3 is left with the test for a reasoning model; a response
\* names no model of its own, so that test reads this.currentModel
shouldContinueFirst(resp, hasContent, model) ==
  LET msgs  == MessageOutputs(resp)
      texts == IF Len(msgs) > 0 THEN SelectSeq(msgs[1].content, IsOutputText) ELSE <<>>
  IN  IF resp.status = "incomplete" THEN TRUE
      ELSE IF Len(FunctionCalls(resp)) > 0 THEN TRUE
      ELSE IF Len(texts) > 0 /\ texts[1].text # NoStr THEN isReasoningModel(model)
      ELSE TRUE

\* the finish_reason the first transformResponseToOpenAI returns
FinishReasonFirst(resp, opts, model) ==
  LET msgs       == MessageOutputs(resp)
      texts      == IF Len(msgs) > 0 THEN SelectSeq(msgs[1].content, IsOutputText) ELSE <<>>
      hasContent == Len(texts) > 0 /\ texts[1].text # NoStr
      calls      == Len(FunctionCalls(resp))
      inBranch   ==
        IF resp.status = "incomplete" THEN "length"
        ELSE IF opts.alwaysContinueWithTools /\ calls > 0 THEN "stop"
        ELSE IF hasContent /\ calls > 0 THEN "stop"
        ELSE IF calls > 0 /\ ~hasContent
          THEN (IF opts.continuousExecution \/ shouldContinueFirst(resp, hasContent, model)
                  THEN "stop" ELSE "tool_calls")
        ELSE "stop"
      decided    == IF calls > 0 THEN inBranch ELSE "stop"
  IN  IF resp.status = "incomplete" THEN "length" ELSE decided

\* the finish_reason of the chunk the first processStreamEvent returns for
\* response.completed / response.incomplete
finalFinishReasonFirst(event, st, opts, model) ==
  IF event.type = "response.incomplete" THEN "length"
  ELSE IF st.hadToolCalls /\ st.hasContent THEN "stop"
  ELSE IF st.hadToolCalls /\ ~st.hasContent
    THEN (IF opts.alwaysContinueWithTools \/ opts.continuousExecution THEN "stop"
          ELSE IF isReasoningModel(model) THEN "stop"
          ELSE "tool_calls")
  ELSE "stop"

\* the first processStreamEvent: for the events of this development it updates
\* the stream state and builds the chunks as the second one does, except for
\* the finish_reason of the final chunk
processStreamEventFirst(event, st, opts, model) ==
  IF event.type \in {"response.completed", "response.incomplete"}
    THEN [st |-> st,
          frames |-> <<Chunk(ChunkId(st), model, "empty", -1, "", "", NoStr,
                             finalFinishReasonFirst(event, st, opts, model))>>]
    ELSE processStreamEvent(event, st, model)

RECURSIVE StreamFirst(_, _, _, _)
\* the first handleStreamingResponse reading a body of one data: line per
\* event: each line is parsed and handed to processStreamEvent
StreamFirst(events, st, opts, model) ==
  IF events = <<>> THEN <<>>
  ELSE LET r == processStreamEventFirst(V2Event(Head(events)), st, opts, model)
       IN  r.frames \o StreamFirst(Tail(events), r.st, opts, model)

RECURSIVE ConcatText(_)
\* the text deltas of a streamed body, joined
ConcatText(events) ==
  IF events = <<>> THEN NoStr
  ELSE (IF V2Event(Head(events)).type = "response.output_text.delta"
          THEN V2Event(Head(events)).delta ELSE NoStr) \o ConcatText(Tail(events))

\* the non-streamed response with the content of a streamed body: its text in
\* one message, its function calls, and the status its last event reports
ResponseOf(events) ==
  [id |-> StreamedResponseId(events),
   status |-> IF events[Len(events)] = "incomplete" THEN "incomplete" ELSE "completed",
   conversation_id |-> "",
   output |-> (IF ConcatText(events) # NoStr
                 THEN <<MessageItem(<<TextPart(ConcatText(events))>>)>> ELSE <<>>)
              \o UpstreamCalls(events)]

\* one upstream answer decoded by the first definition both ways: as a stream,
\* and as the non-streamed response with the same content
DecodeBothWays ==
  /\ encImpl = "none"
  /\ \E opts \in OptionSets, model \in FirstModels, events \in StreamedBodies :
       /\ encIn' = [options |-> opts, model |-> model, events |-> events]
       /\ encOut' = [frames |-> StreamFirst(events, InitStreamState, opts, model),
                     finish_reason |-> FinishReasonFirst(ResponseOf(events), opts, model)]
  /\ encImpl' = "first_v2"
  /\ UNCHANGED <<streamVars, tokVars, instVars, concVars, xfVars>>

SpecFirst == EncInit /\ [][DecodeBothWays]_vars

-----------------------------------------------------------------------------
(* Concurrent use of one transformer instance *)

instRest == <<options, conversationStates, toolCallMap, pending, reqOut, last, answered,
              respKeys, callKeys, rounds>>

ConcInit ==
  /\ flights \in [ReqNames -> {NewFlight(m, b) : m \in {O3, GPT4O}, b \in ConcBodies}]
  /\ InstIdle /\ StreamIdle /\ TokIdle /\ EncIdle /\ XfIdle

\* transformRequestIn(request) of flight r: this.currentModel = request.model
ConcTransformRequestIn(r) ==
  /\ flights[r].phase = "new"
  /\ currentModel' = flights[r].model
  /\ flights' = [flights EXCEPT ![r].phase = "sent"]
  /\ UNCHANGED <<instRest, streamVars, tokVars, encVars, xfVars>>

\* one turn of the read loop of flight r's stream: a chunk holding one line
ConcRead(r) ==
  /\ flights[r].phase = "sent" /\ flights[r].pos < Len(flights[r].events)
  /\ LET f   == flights[r]
         res == HandleChunkV2(DataLine(f.events[f.pos + 1]) \o <<NL>>, f.st, currentModel)
     IN  flights' = [flights EXCEPT ![r].pos = f.pos + 1, ![r].st = res.st,
                                    ![r].frames = f.frames \o res.frames]
  /\ UNCHANGED <<instVars, streamVars, tokVars, encVars, xfVars>>

\* reader.read() of flight r reports done
ConcReadDone(r) ==
  /\ flights[r].phase = "sent" /\ flights[r].pos = Len(flights[r].events)
  /\ flights' = [flights EXCEPT ![r].phase = "closed"]
  /\ UNCHANGED <<instVars, streamVars, tokVars, encVars, xfVars>>

ConcNext == \E r \in ReqNames : ConcTransformRequestIn(r) \/ ConcRead(r) \/ ConcReadDone(r)

SpecConcurrent == ConcInit /\ [][ConcNext]_vars

-----------------------------------------------------------------------------
(* One call of a request transformer *)

XfInit == XfIdle /\ StreamIdle /\ TokIdle /\ InstIdle /\ EncIdle /\ ConcIdle

Called(name, req, outcome) ==
  /\ xf' = name
  /\ reqBefore' = req
  /\ reqAfter' = outcome.input
  /\ reqRet' = outcome.ret
  /\ xfError' = outcome.error
  /\ UNCHANGED <<streamVars, tokVars, instVars, encVars, concVars>>

TransformMaxToken ==
  /\ xf = "none"
  /\ \E req \in XfRequests, limit \in MaxTokenOptions :
       Called("maxtoken", req, MaxTokenTransformRequestIn(req, limit))

TransformO3 ==
  /\ xf = "none"
  /\ \E req \in XfRequests : Called("o3", req, O3TransformRequestIn(req))

TransformResponseFormat ==
  /\ xf = "none"
  /\ \E req \in XfRequests :
       Called("openai-response-format", req, RFTransformRequestIn(req))

TransformUnified ==
  /\ xf = "none"
  /\ \E req \in XfRequests : Called("openai-unified", req, UnifiedTransformRequestIn(req))

XfNext == TransformMaxToken \/ TransformO3 \/ TransformResponseFormat \/ TransformUnified

SpecRequest == XfInit /\ [][XfNext]_vars

-----------------------------------------------------------------------------
(* Properties of the streamed path *)

IsOpen(f)  == f.kind = "chunk" /\ f.delta \in {"role", "tool_start"}
IsClose(f) == f.kind = "chunk" /\ f.delta = "empty" /\ f.finish_reason = "null"

C2_ToolCallIndicesNeverReused ==
  \A i, j \in 1..Len(out) :
     (i < j /\ out[i].delta = "tool_start" /\ out[j].delta = "tool_start")
        => out[i].index # out[j].index

\* the frames emitted when the tokens `body` arrive as one single chunk
SingleChunkFrames(which, body) ==
  CASE which = "v2" -> HandleChunkV2(body, InitStreamState, CurrentModel).frames
    [] which = "v1" -> HandleChunkV1(body, InitStreamState).frames
    [] OTHER        -> HandleChunkUnified(body, <<>>).frames

\* the frames of the whole response when the body arrives as one chunk
SingleChunkRun(which, body) ==
  CASE which = "v2" -> SingleChunkFrames(which, body)
    [] which = "v1" -> LET r == HandleChunkV1(body, InitStreamState)
                       IN  r.frames \o FlushUnified(r.st.buffer)
    [] OTHER        -> LET r == HandleChunkUnified(body, <<>>)
                       IN  r.frames \o FlushUnified(r.buffer)

\* C3: however the body is cut into chunks, the frames emitted so far are
\* the frames a single chunk holding the same tokens gives, and the frames of
\* the finished stream are those of the body arriving as one chunk.
C3_ChunkingInvariant ==
  /\ pc = "reading" => out = SingleChunkFrames(impl, SubSeq(upstream, 1, pos))
  /\ outState = "closed" => out = SingleChunkRun(impl, upstream)

\* a chunk boundary fell inside a line after frames had been emitted, and
\* more of the body is still to come
C3_Witness ==
  /\ pc = "reading" /\ out # <<>>
  /\ streamState.buffer # <<>> /\ pos < Len(upstream)
  /\ Len(streamState.buffer) < pos

\* the segments of the body: its complete lines, then the unfinished rest
UpstreamLines == SplitNL(upstream)

\* a complete data: line of the body whose payload JSON.parse rejects
IsUnparseable(i) ==
  /\ i \in 1..(Len(UpstreamLines) - 1)
  /\ UpstreamLines[i] # DoneLine
  /\ StartsWithData(UpstreamLines[i])
  /\ ~JsonOk(Payload(UpstreamLines[i]))

\* the body without its i-th line
WithoutLine(i) ==
  Join(SubSeq(UpstreamLines, 1, i - 1))
    \o Join(SubSeq(UpstreamLines, i + 1, Len(UpstreamLines) - 1))
    \o UpstreamLines[Len(UpstreamLines)]

\* C15: every complete data: line whose payload is not valid JSON comes out
\* as a raw frame holding the line unchanged, at the position the line has
\* among the emitted frames, and the lines around it are handled as if the
\* line were not there.
C15_UnparseablePassedThrough ==
  outState = "closed" =>
    \A i \in 1..(Len(UpstreamLines) - 1) :
       IsUnparseable(i) =>
         LET before == Len(SingleChunkFrames(impl, Join(SubSeq(UpstreamLines, 1, i - 1))))
             others == SingleChunkRun(impl, WithoutLine(i))
         IN  out = SubSeq(others, 1, before) \o <<RawFrame(UpstreamLines[i])>>
                     \o SubSeq(others, before + 1, Len(others))

\* line i of the body is the terminal event of the response
IsTerminalEvent(i) ==
  UpstreamLines[i] \in {DataLine("completed"), DataLine("incomplete")}

\* the body is a whole response: it ends with a newline, its one terminal
\* event is followed by blank lines and at most one [DONE] line, and no
\* [DONE] line comes before it
WellTerminated ==
  LET n == Len(UpstreamLines) - 1
  IN  /\ UpstreamLines[n + 1] = <<>>
      /\ \E i \in 1..n :
           /\ IsTerminalEvent(i)
           /\ \A j \in 1..(i - 1) : ~IsTerminalEvent(j) /\ UpstreamLines[j] # DoneLine
           /\ \A j \in (i + 1)..n : IsBlank(UpstreamLines[j]) \/ UpstreamLines[j] = DoneLine
           /\ Cardinality({j \in (i + 1)..n : UpstreamLines[j] = DoneLine}) <= 1

\* C18: an output stream that ends normally holds the data: [DONE] frame
\* exactly once, as its last frame, whether or not the upstream sent a [DONE]
\* line after its terminal event.
C18_DoneExactlyOnceAndLast ==
  (impl \in {"v2", "v1"} /\ outState = "closed" /\ WellTerminated) =>
     /\ out # <<>>
     /\ out[Len(out)] = DoneFrame
     /\ Cardinality({i \in 1..Len(out) : out[i] = DoneFrame}) = 1

\* C20: once the client has cancelled the output stream the read loop stops:
\* at most the read that was pending at the cancel settles, and no read is
\* started after it.
C20_NoReadsAfterCancel ==
  outState = "cancelled" => readsAfterCancel <= 1

RECURSIVE AssembledContent(_)
\* the text a client assembles from the content deltas of the frames
AssembledContent(frames) ==
  IF frames = <<>> THEN NoStr
  ELSE (IF Head(frames).kind = "chunk" THEN Head(frames).text ELSE NoStr)
         \o AssembledContent(Tail(frames))

RECURSIVE RefusalText(_)
\* the refusal the upstream lines deliver, delta after delta
RefusalText(lines) ==
  IF lines = <<>> THEN NoStr
  ELSE (IF Head(lines) = DataLine("u_refusal") THEN UEvent("u_refusal").refusal ELSE NoStr)
         \o RefusalText(Tail(lines))

\* the body is a streamed refusal: refusal deltas, blank lines and [DONE],
\* every line terminated
RefusalBody ==
  LET n == Len(UpstreamLines) - 1
  IN  /\ UpstreamLines[n + 1] = <<>>
      /\ \E i \in 1..n : UpstreamLines[i] = DataLine("u_refusal")
      /\ \A i \in 1..n : UpstreamLines[i] \in {DataLine("u_refusal"), DoneLine, <<>>}

\* C21: the content deltas of a streamed refusal, put together, are the
\* marker followed by the whole refusal text: the content the non-streamed
\* conversion gives for the same refusal.
C21_RefusalMarkedOnce ==
  (impl = "unified" /\ outState = "closed" /\ RefusalBody) =>
     AssembledContent(out) =
        UnifiedTransformMessage([content |-> NoStr, parsed |-> NoStr,
                                 refusal |-> RefusalText(UpstreamLines)]).content

\* the body ends with a complete data: event that has no newline after it
EndsWithUnterminatedEvent ==
  LET rest == UpstreamLines[Len(UpstreamLines)]
  IN  rest # DoneLine /\ StartsWithData(rest) /\ JsonOk(Payload(rest))

\* C26: when the upstream ends while the buffer holds a complete data: event
\* without its newline, the output is what it would be had the newline come:
\* the event is transformed and its frames are emitted before the close.
C26_LastEventProcessed ==
  (impl \in {"v2", "v1"} /\ outState = "closed" /\ EndsWithUnterminatedEvent) =>
     out = SingleChunkRun(impl, upstream \o <<NL>>)

-----------------------------------------------------------------------------
(* Properties of one transformer instance *)

HasToolCalls(resp) ==
  \/ Len(FunctionCalls(resp)) > 0
  \/ \E i \in 1..Len(resp.output) :
        IsMessage(resp.output[i]) /\ \E j \in 1..Len(resp.output[i].content) :
           IsToolUse(resp.output[i].content[j])

StreamHasToolCalls(events) ==
  \E i \in 1..Len(events) : V2Event(events[i]).item_type = "function_call"

FinalFrame(frames) == frames[Len(frames)]

WaitForToolResults(opts) == ~opts.alwaysContinueWithTools /\ ~opts.continuousExecution

\* no message of the response carries an output_text part
HasNoText(resp) ==
  \A i \in 1..Len(resp.output) :
     IsMessage(resp.output[i]) =>
        \A j \in 1..Len(resp.output[i].content) : ~IsOutputText(resp.output[i].content[j])

\* C29: the 'always continue with tools' default can be overridden: on a
\* transformer constructed with alwaysContinueWithTools = false and
\* continuousExecution = false, a completed non-streamed response that has
\* function calls and no text is returned with finish_reason 'tool_calls'.
C29_ToolCallsWhenOverridden ==
  (/\ WaitForToolResults(options)
   /\ last.kind = "json" /\ last.resp.status = "completed"
   /\ Len(FunctionCalls(last.resp)) > 0
   /\ HasNoText(last.resp))
    => last.result.finish_reason = "tool_calls"

C13_ErrorPassedThrough ==
  last.kind = "error" => last.returned = last.received

\* C11: a request for key K never gets a previous_response_id that came from a
\* response to another key, and the tool_history stored for K holds only tool
\* calls made in conversation K.
C11_StateNotSharedAcrossKeys ==
  /\ (pending.encoded /\ pending.previous_response_id # "")
        => pending.conversation_id \in respKeys[pending.previous_response_id]
  /\ \A k \in ConvKeys : \A c \in conversationStates[k].tool_history :
        k \in callKeys[c]

\* C10: once a response with id R has been processed for a request carrying
\* conversation_id K, the next request encoded for K carries
\* previous_response_id = R.
C10_PreviousResponseIdChained ==
  (pending.encoded /\ pending.conversation_id # ""
     /\ answered[pending.conversation_id] # "")
    => pending.previous_response_id = answered[pending.conversation_id]

RECURSIVE StreamedArguments(_, _)
\* the argument deltas the frames carry for one tool-call index, joined
StreamedArguments(frames, index) ==
  IF frames = <<>> THEN NoStr
  ELSE (IF Head(frames).delta = "tool_args" /\ Head(frames).index = index
          THEN Head(frames).text ELSE NoStr)
         \o StreamedArguments(Tail(frames), index)

\* C19: for a stream whose function calls have valid JSON arguments, the
\* argument deltas emitted for tool-call index k-1, joined, parse to the same
\* object as the arguments the non-streamed path returns for the k-th call,
\* with one call and with several.
C19_StreamedArgumentsMatch ==
  last.kind = "stream" =>
    LET calls == UpstreamCalls(last.events)
        plain == transformResponseToOpenAI(EquivalentResponse(last.events),
                                           options, currentModel).tool_calls
    IN  (\A k \in 1..Len(calls) : ArgsJson(calls[k].arguments).ok) =>
           \A k \in 1..Len(calls) :
              ArgsJson(StreamedArguments(last.frames, k - 1)) = ArgsJson(plain[k].arguments)

\* the upstream response holds one completed message whose content is one
\* inline tool call
IsInlineToolCall(in) ==
  /\ in.resp.status = "completed" /\ in.messageStatus = "completed"
  /\ Len(in.resp.output) = 1 /\ IsMessage(in.resp.output[1])
  /\ Len(in.resp.output[1].content) = 1 /\ IsToolUse(in.resp.output[1].content[1])

\* the same response with the call as a top-level function_call item
AsFunctionCall(resp) ==
  [resp EXCEPT !.output =
     <<FunctionCallItem(resp.output[1].content[1].id, resp.output[1].content[1].name,
                        resp.output[1].content[1].input)>>]

\* C22: a tool call inline in the message content and the same call as a
\* top-level function_call item are decoded to the same tool_calls entry (name
\* and arguments) and the same finish_reason.
C22_ToolCallEncodingsNormalized ==
  (encImpl = "decode_v1" /\ IsInlineToolCall(encIn)) =>
     LET other == transformToOpenAIFormat(AsFunctionCall(encIn.resp), "undefined")
     IN  /\ Len(encOut.tool_calls) = 1 /\ Len(other.tool_calls) = 1
         /\ encOut.tool_calls[1].name = other.tool_calls[1].name
         /\ ArgsJson(encOut.tool_calls[1].arguments) = ArgsJson(other.tool_calls[1].arguments)
         /\ encOut.finish_reason = other.finish_reason

RECURSIVE PartsText(_)
\* the text of the output_text parts of a content array, in order
PartsText(parts) ==
  IF parts = <<>> THEN NoStr
  ELSE (IF IsOutputText(Head(parts)) THEN Head(parts).text ELSE NoStr)
         \o PartsText(Tail(parts))

RECURSIVE UpstreamText(_)
\* the text of every output_text part of every message item, in order
UpstreamText(output) ==
  IF output = <<>> THEN NoStr
  ELSE (IF IsMessage(Head(output)) THEN PartsText(Head(output).content) ELSE NoStr)
         \o UpstreamText(Tail(output))

\* the ids of the tool calls of a response, inline or top-level
UpstreamToolCallIds(output) ==
  {output[i].call_id : i \in {j \in 1..Len(output) : IsFunctionCall(output[j])}}
    \cup UNION {{output[i].content[k].id :
                   k \in {l \in 1..Len(output[i].content) : IsToolUse(output[i].content[l])}} :
                i \in {j \in 1..Len(output) : IsMessage(output[j])}}

\* C23: the content returned for a completed non-streamed response holds the
\* text of every output_text part of every message item, in upstream order,
\* and every upstream tool call is in tool_calls.
C23_ContentSequencePreserved ==
  (last.kind = "json" /\ last.resp.status = "completed") =>
     /\ Includes(last.result.content, UpstreamText(last.resp.output))
     /\ UpstreamToolCallIds(last.resp.output) \subseteq
           {last.result.tool_calls[i].id : i \in 1..Len(last.result.tool_calls)}

-----------------------------------------------------------------------------
(* Properties of transformMessages *)

OutputTypes == {"output_text", "output_image"}
InputTypes  == {"input_text", "input_image"}

\* C9: every content part of an assistant item has an output content type and
\* every content part of a user, system or tool-derived item has an input
\* content type, whatever kind of block it was built from.
C9_RoleBasedContentTypes ==
  \A i \in 1..Len(encOut) : \A j \in 1..Len(encOut[i].content) :
     encOut[i].content[j].type \in
        (IF encOut[i].role = "assistant" THEN OutputTypes ELSE InputTypes)

\* message i of the request has no input item of its own: a tool message
\* that follows a user or tool message is merged into the item before it (v2);
\* only user messages reach the input array (hybrid)
HasOwnItem(i) ==
  IF encImpl = "hybrid"
    THEN encIn[i].role = "user"
    ELSE ~(encIn[i].role = "tool" /\ i > 1 /\ encIn[i - 1].role \in {"user", "tool"})

\* the messages that have an item of their own, in request order
ItemOrigins == SelectSeq([i \in 1..Len(encIn) |-> i], HasOwnItem)

\* the input item a message gives when it is encoded alone
EncodedAlone(msg) ==
  IF encImpl = "hybrid"
    THEN transformToResponsesApiWithSystem(<<msg>>)[1]
    ELSE transformMessagesV2(<<msg>>)[1]

RECURSIVE MergedContent(_, _)
\* the parts of the messages from..to, each encoded alone, in request order
MergedContent(from, to) ==
  IF from > to THEN <<>>
  ELSE EncodedAlone(encIn[from]).content \o MergedContent(from + 1, to)

-----------------------------------------------------------------------------
(* Properties of concurrent use *)

CallsNamed(events) ==
  \A i \in 1..Len(events) :
     V2Event(events[i]).type \in {"response.function_call.delta", "response.function_call.done"}
        => V2Event(events[i]).call_id # ""

\* the calls opened and not yet done after the events
OpenCalls(events) ==
  {c \in CallIds :
     /\ \E i \in 1..Len(events) :
          V2Event(events[i]).item_type = "function_call" /\ V2Event(events[i]).call_id = c
     /\ ~\E i \in 1..Len(events) :
          V2Event(events[i]).type = "response.function_call.done" /\ V2Event(events[i]).call_id = c}

RECURSIVE DeltasOf(_, _)
\* the argument deltas of call c in the events, joined
DeltasOf(events, c) ==
  IF events = <<>> THEN NoStr
  ELSE (IF /\ V2Event(Head(events)).type = "response.function_call.delta"
           /\ V2Event(Head(events)).call_id = c
          THEN V2Event(Head(events)).delta ELSE NoStr)
         \o DeltasOf(Tail(events), c)

\* the name the function_call item of call c announced
NameOfCall(events, c) ==
  LET i == CHOOSE j \in 1..Len(events) :
             V2Event(events[j]).item_type = "function_call" /\ V2Event(events[j]).call_id = c
  IN  V2Event(events[i]).name

\* C27: while a tool call is open the stream state holds its id, its name and
\* the concatenation of exactly its argument deltas, also when another call
\* was opened before it was done.
C27_AccumulatorPerOpenCall ==
  \A r \in ReqNames :
     LET f    == flights[r]
         seen == SubSeq(f.events, 1, f.pos)
     IN  (f.phase = "sent" /\ CallsNamed(f.events)) =>
            \A c \in OpenCalls(seen) :
               /\ f.st.currentToolCall.present
               /\ f.st.currentToolCall.id = c
               /\ f.st.currentToolCall.name = NameOfCall(seen, c)
               /\ f.st.currentToolCall.arguments = DeltasOf(seen, c)

-----------------------------------------------------------------------------
(* Properties of the request transformers *)

\* C14: a transformer never returns a request from which tools, prediction or
\* response_format (or its json_schema type) was removed; a request it cannot
\* serve is rejected, and a rejected request is left unchanged.
C14_UnsupportedFeatureRejected ==
  /\ (xf # "none" /\ ~xfError) =>
        /\ reqBefore.tools => reqRet.tools
        /\ reqBefore.prediction => reqRet.prediction
        /\ reqRet.response_format.type = reqBefore.response_format.type
  /\ xfError => reqAfter = reqBefore

\* C16: transformRequestIn leaves the request object it was given, its
\* messages and their content included, as it was.
C16_InputNotMutated ==
  xf # "none" => reqAfter = reqBefore

JsonModeServed ==
  /\ xf \in {"o3", "openai-response-format", "openai-unified"}
  /\ IsJsonMode(reqBefore.response_format)
  /\ CASE xf = "o3" -> isO3Model(reqBefore.model)
       [] xf = "openai-unified" ->
            getModelCategory(reqBefore.model).features.supportsResponseFormat
       [] OTHER ->
            \E m \in (IF reqBefore.response_format.type = "json_schema"
                        THEN STRUCTURED_OUTPUT_MODELS ELSE JSON_MODE_MODELS) :
               Includes(reqBefore.model, m)

\* C17: for a json response_format on a supported model and messages without
\* the word "json", transformRequestIn does not fail and leaves at least one
\* message that contains it.
C17_JsonKeywordEnsured ==
  (JsonModeServed /\ ~HasJsonKeywordUnified(reqBefore.messages)) =>
     /\ ~xfError
     /\ HasJsonKeywordUnified(reqRet.messages)

\* the models the documentation lists as taking max_completion_tokens
MaxCompletionTokensModels == {O3, O3MINI, O4MINI}

\* C25: for o3, o3-mini and o4-mini the request returned by
\* OpenAIUnifiedTransformer.transformRequestIn has no max_tokens and carries
\* the caller's limit in max_completion_tokens.
C25_MaxCompletionTokensUsed ==
  (xf = "openai-unified" /\ ~xfError /\ reqBefore.model \in MaxCompletionTokensModels) =>
     /\ reqRet.max_tokens = 0
     /\ reqRet.max_completion_tokens \in
          (IF reqBefore.max_tokens = 0 /\ reqBefore.max_completion_tokens = 0
             THEN {0}
             ELSE {reqBefore.max_tokens, reqBefore.max_completion_tokens} \ {0})

-----------------------------------------------------------------------------
(* Properties of calculateOptimalTokens *)

\* C6: feeding the computed total back as the requested limit, everything
\* else equal, yields the same total again.
C6_Idempotent ==
  tokRounds > 0 => tokCalc.total = tokPrev

\* the request has tools, a reasoning model or a history above the threshold
HasOverhead(req) ==
  req.tools > 0 \/ isReasoningModel(req.model) \/ req.messages > HistoryThreshold

\* C6 as amended: the total fed back comes out unchanged only when the
\* request adds no overhead or the total had reached the model's cap; in
\* every other case the result is strictly larger.
C6_FixedPointOrGrowing ==
  tokRounds > 0 =>
     IF ~HasOverhead(tokReq) \/ tokPrev = ModelMax(tokReq.model)
       THEN tokCalc.total = tokPrev
       ELSE tokCalc.total > tokPrev

\* a total below the cap was fed back for a request with overhead
C6_Witness ==
  /\ tokRounds > 0 /\ HasOverhead(tokReq)
  /\ tokPrev < ModelMax(tokReq.model) /\ tokCalc.total > tokPrev

\* the minimum that applies to a request
MinimumFor(req) ==
  Max(IF req.tools > 0 THEN minTokensForTools ELSE 0,
      IF Includes(req.model, <<"o4", "-mini">>) THEN MinTokensO4Mini
      ELSE IF Includes(req.model, <<"o3">>) THEN MinTokensO3 ELSE 0)

\* C7: the computed total lies within the model's [min,max]: never above the
\* model's cap and never below the minimum that applies.
C7_WithinMinMax ==
  tokCalc # NoCalc =>
     /\ tokCalc.total <= ModelMax(tokReq.model)
     /\ tokCalc.total >= MinimumFor(tokReq)

\* C8: for a reasoning-capable model and a request with at least one tool the
\* total is at least minTokensForTools, and it is not the raw requested value
\* when that value is below the floor.
C8_ToolFloorForReasoningModels ==
  (tokCalc # NoCalc /\ tokRounds = 0 /\ isReasoningModel(tokReq.model) /\ tokReq.tools > 0) =>
     /\ tokCalc.total >= minTokensForTools
     /\ BaseTokens(tokReq) < minTokensForTools => tokCalc.total # BaseTokens(tokReq)

\* two tools and a requested limit of 100 on a reasoning model whose only
\* floor is the one for tools
C8_Witness ==
  /\ tokCalc # NoCalc /\ tokRounds = 0
  /\ tokReq.model = O1 /\ tokReq.tools = 2 /\ tokReq.max_tokens = 100
  /\ tokCalc.total = minTokensForTools

-----------------------------------------------------------------------------
(* Properties of the first definition of ResponsesApiV2Transformer *)

\* C28: in the first definition the streamed and the non-streamed path decide
\* the finish reason by the same rule: whatever the two continuation options,
\* the model and the content of the answer (text or none, function calls or
\* none, truncated or not), the final streamed chunk carries the finish_reason
\* that is returned for the non-streamed response with the same content.
C28_SameFinishRule ==
  encImpl = "first_v2" =>
    /\ Len(encOut.frames) > 0
    /\ FinalFrame(encOut.frames).finish_reason = encOut.finish_reason

\* C30: pass-through is symmetric: after transformRequestIn has returned a
\* request unchanged because its model is not a Responses-API model,
\* transformResponseOut returns the answer to it unchanged too: the
\* chat.completion body is not decoded as if it were a Responses-API body.
C30_PassThroughSymmetric ==
  (last.kind = "chat" /\ ~reqOut.encoded) => last.result = last.chat

====
